---------------------------- MODULE Spec2Model ----------------------------
(***************************************************************************)
(* A model of two components of crab:                                      *)
(*                                                                         *)
(*  - the interleaved forward fixpoint iterator                            *)
(*    (interleaved_fwd_fixpoint_iterator, wto_iterator, wto_processor),    *)
(*    run over a bounded family of control-flow graphs with their weak     *)
(*    topological orderings, on the interval domain of one variable;       *)
(*                                                                         *)
(*  - the powerset combinator domain (powerset_domain), over the interval  *)
(*    domain of two variables.                                             *)
(*                                                                         *)
(* Spec / SpecLive are the iterator, SpecPowerset the powerset domain.     *)
(***************************************************************************)
EXTENDS Integers, Sequences, FiniteSets, TLC

(***************************************************************************)
(* Bounds of the model.                                                    *)
(***************************************************************************)
\* largest widening_threshold the iterator is configured with
MaxWideningThreshold == 1

\* largest narrowing_iterations the iterator is configured with
MaxNarrowingIterations == 2

\* the iteration counters (unsigned int in the code) are only ever compared
\* with the two thresholds; the model stops counting at MaxIteration, which
\* no run of the code reaches (IterationBelowCap)
MaxIteration == 8

(***************************************************************************)
(* Extended integers: <<-1, 0>> is -oo, <<0, n>> is n, <<1, 0>> is +oo.    *)
(***************************************************************************)
NInf == <<-1, 0>>

PInf == <<1, 0>>

Fin(n) == <<0, n>>

IsFin(a) == a[1] = 0

BLe(a, b) == a[1] < b[1] \/ (a[1] = b[1] /\ a[2] <= b[2])

BLt(a, b) == BLe(a, b) /\ a # b

BMin(a, b) == IF BLe(a, b) THEN a ELSE b

BMax(a, b) == IF BLe(a, b) THEN b ELSE a

BAdd(a, k) == IF IsFin(a) THEN Fin(a[2] + k) ELSE a

(***************************************************************************)
(* The interval lattice (crab/domains/interval.hpp): a pair of bounds,     *)
(* bottom when lb > ub, kept in the canonical form [0, -1].                *)
(***************************************************************************)
IBot == [lb |-> Fin(0), ub |-> Fin(-1)]

ITop == [lb |-> NInf, ub |-> PInf]

Itv(l, u) == IF BLe(l, u) THEN [lb |-> l, ub |-> u] ELSE IBot

IIsBot(a) == ~BLe(a.lb, a.ub)

IIsTop(a) == a.lb = NInf /\ a.ub = PInf

ILeq(a, b) ==
  \/ IIsBot(a)
  \/ (~IIsBot(b) /\ BLe(b.lb, a.lb) /\ BLe(a.ub, b.ub))

IJoin(a, b) ==
  IF IIsBot(a) THEN b
  ELSE IF IIsBot(b) THEN a
  ELSE [lb |-> BMin(a.lb, b.lb), ub |-> BMax(a.ub, b.ub)]

IMeet(a, b) ==
  IF IIsBot(a) \/ IIsBot(b) THEN IBot
  ELSE Itv(BMax(a.lb, b.lb), BMin(a.ub, b.ub))

IWiden(a, b) ==
  IF IIsBot(a) THEN b
  ELSE IF IIsBot(b) THEN a
  ELSE [lb |-> IF BLt(b.lb, a.lb) THEN NInf ELSE a.lb,
        ub |-> IF BLt(a.ub, b.ub) THEN PInf ELSE a.ub]

\* the least threshold >= u and the greatest threshold <= l; the set of
\* thresholds always holds -oo and +oo
NextThreshold(ts, u) ==
  LET above == {t \in ts : BLe(u, Fin(t))}
  IN  IF above = {} THEN PInf
      ELSE Fin(CHOOSE t \in above : \A s \in above : t <= s)

PrevThreshold(ts, l) ==
  LET below == {t \in ts : BLe(Fin(t), l)}
  IN  IF below = {} THEN NInf
      ELSE Fin(CHOOSE t \in below : \A s \in below : s <= t)

IWidenThresholds(a, b, ts) ==
  IF IIsBot(a) THEN b
  ELSE IF IIsBot(b) THEN a
  ELSE [lb |-> IF BLt(b.lb, a.lb) THEN PrevThreshold(ts, b.lb) ELSE a.lb,
        ub |-> IF BLt(a.ub, b.ub) THEN NextThreshold(ts, b.ub) ELSE a.ub]

INarrow(a, b) ==
  IF IIsBot(a) \/ IIsBot(b) THEN IBot
  ELSE [lb |-> IF ~IsFin(a.lb) /\ IsFin(b.lb) THEN b.lb ELSE a.lb,
        ub |-> IF ~IsFin(a.ub) /\ IsFin(b.ub) THEN b.ub ELSE a.ub]

(***************************************************************************)
(* Statements of a basic block over the variable i, and the analyzer       *)
(* callback that runs them on an interval.                                 *)
(***************************************************************************)
St(o, n) == [op |-> o, k |-> n]

ApplyStmt(s, v) ==
  IF IIsBot(v) THEN IBot
  ELSE CASE s.op = "set" -> Itv(Fin(s.k), Fin(s.k))
         [] s.op = "add" -> [lb |-> BAdd(v.lb, s.k), ub |-> BAdd(v.ub, s.k)]
         [] s.op = "le"  -> IMeet(v, Itv(NInf, Fin(s.k)))
         [] s.op = "ge"  -> IMeet(v, Itv(Fin(s.k), PInf))

RECURSIVE RunStmts(_, _)
RunStmts(stmts, v) ==
  IF stmts = <<>> THEN v
  ELSE RunStmts(Tail(stmts), ApplyStmt(Head(stmts), v))

(***************************************************************************)
(* The weak topological ordering: a sequence of components, each a vertex  *)
(* or a cycle with a head and a body that is again a sequence.             *)
(***************************************************************************)
Vertex(n) == [node |-> n, cyc |-> FALSE, body |-> <<>>]

Cycle(h, b) == [node |-> h, cyc |-> TRUE, body |-> b]

\* wto::nesting: the heads of the cycles that enclose n, outermost first
\* (the head of a cycle is not in its own nesting)
RECURSIVE NestingIn(_, _, _)
NestingIn(comps, n, prefix) ==
  IF comps = <<>> THEN <<"?">>
  ELSE LET c == Head(comps)
           inner == NestingIn(c.body, n, Append(prefix, c.node))
       IN  IF c.node = n THEN prefix
           ELSE IF c.cyc /\ inner # <<"?">> THEN inner
           ELSE NestingIn(Tail(comps), n, prefix)

\* wto_nesting::operator>: a is deeper than b when b is a strict prefix of a
NestingGt(a, b) == Len(a) > Len(b) /\ SubSeq(a, 1, Len(b)) = b

\* the order in which wto_processor reports the nodes
RECURSIVE Flatten(_)
Flatten(comps) ==
  IF comps = <<>> THEN <<>>
  ELSE <<Head(comps).node>> \o Flatten(Head(comps).body) \o Flatten(Tail(comps))

(***************************************************************************)
(* The family of control-flow graphs.                                      *)
(***************************************************************************)
Ops ==
  { <<>>, <<St("set", 0)>>, <<St("set", 2)>>, <<St("add", 1)>>,
    <<St("add", -1)>>, <<St("le", 2)>>,
    <<St("le", 0), St("add", 1)>>, <<St("le", 3), St("add", -1)>> }

\* entry -> head; head -> body -> head; head -> exit, with i := 0 at entry,
\* i := i + 1 in body and assume (i <= 10) at head
SimpleLoop ==
  [ name  |-> "simple_loop",
    entry |-> "entry",
    prev  |-> [entry |-> <<>>, head |-> <<"entry", "body">>,
               body |-> <<"head">>, exit |-> <<"head">>],
    wto   |-> <<Vertex("entry"), Cycle("head", <<Vertex("body")>>), Vertex("exit")>>,
    tr    |-> [entry |-> <<St("set", 0)>>, head |-> <<St("le", 10)>>,
               body |-> <<St("add", 1)>>, exit |-> <<>>],
    thresholds |-> {0, 10} ]

\* a loop with two paths, through b and through c, from its head back to it
Loops ==
  { [ name  |-> "loop",
      entry |-> "entry",
      prev  |-> [entry |-> <<>>, head |-> <<"entry", "b", "c">>,
                 b |-> <<"head">>, c |-> <<"head">>, exit |-> <<"head">>],
      wto   |-> <<Vertex("entry"), Cycle("head", <<Vertex("b"), Vertex("c")>>),
                  Vertex("exit")>>,
      tr    |-> [entry |-> <<>>, head |-> th, b |-> tb, c |-> tc, exit |-> <<>>],
      thresholds |-> {0, 2} ] : th \in {<<>>, <<St("le", 2)>>}, tb \in Ops, tc \in Ops }

\* a loop whose head is the entry of the graph
EntryLoops ==
  { [ name  |-> "entry_loop",
      entry |-> "head",
      prev  |-> [head |-> <<"body">>, body |-> <<"head">>, exit |-> <<"head">>],
      wto   |-> <<Cycle("head", <<Vertex("body")>>), Vertex("exit")>>,
      tr    |-> [head |-> th, body |-> tb, exit |-> <<>>],
      thresholds |-> {0, 2} ] : th \in Ops, tb \in Ops }

\* entry -> bb1 -> bb3, entry -> bb2 -> bb3 (tests/preconditions/precond-1.cc)
Diamonds ==
  { [ name  |-> "diamond",
      entry |-> "entry",
      prev  |-> [entry |-> <<>>, bb1 |-> <<"entry">>, bb2 |-> <<"entry">>,
                 bb3 |-> <<"bb1", "bb2">>],
      wto   |-> <<Vertex("entry"), Vertex("bb1"), Vertex("bb2"), Vertex("bb3")>>,
      tr    |-> [entry |-> <<>>, bb1 |-> t1, bb2 |-> t2, bb3 |-> <<>>],
      thresholds |-> {0, 2} ] : t1 \in Ops, t2 \in Ops }

\* two nested loops: h1 is the head of the outer one, h2 of the inner one,
\* with two paths b2 and c2 back to h2 and the back edge h2 -> h1
NestedLoops ==
  { [ name  |-> "nested",
      entry |-> "entry",
      prev  |-> [entry |-> <<>>, h1 |-> <<"entry", "h2">>,
                 h2 |-> <<"h1", "b2", "c2">>, b2 |-> <<"h2">>, c2 |-> <<"h2">>,
                 exit |-> <<"h1">>],
      wto   |-> <<Vertex("entry"),
                  Cycle("h1", <<Cycle("h2", <<Vertex("b2"), Vertex("c2")>>)>>),
                  Vertex("exit")>>,
      tr    |-> [entry |-> <<>>, h1 |-> t1, h2 |-> t2,
                 b2 |-> <<>>, c2 |-> t3, exit |-> <<>>],
      thresholds |-> {0, 2} ] : t1 \in Ops, t2 \in Ops, t3 \in Ops }

CFGs == {SimpleLoop} \cup Loops \cup EntryLoops \cup Diamonds \cup NestedLoops

InitialValues == {ITop, Itv(Fin(0), Fin(0))}

(***************************************************************************)
(* The base domain the powerset is instantiated with here: an interval for *)
(* each of the variables x and y.  Bottom is kept canonical.               *)
(***************************************************************************)
Variables == {"x", "y"}

DBot == [x |-> IBot, y |-> IBot]

DTop == [x |-> ITop, y |-> ITop]

Env(ix, iy) == IF IIsBot(ix) \/ IIsBot(iy) THEN DBot ELSE [x |-> ix, y |-> iy]

DIsBot(d) == IIsBot(d.x) \/ IIsBot(d.y)

DIsTop(d) == IIsTop(d.x) /\ IIsTop(d.y)

DLeq(a, b) ==
  \/ DIsBot(a)
  \/ (~DIsBot(b) /\ ILeq(a.x, b.x) /\ ILeq(a.y, b.y))

DJoin(a, b) ==
  IF DIsBot(a) THEN b
  ELSE IF DIsBot(b) THEN a
  ELSE Env(IJoin(a.x, b.x), IJoin(a.y, b.y))

DMeet(a, b) ==
  IF DIsBot(a) \/ DIsBot(b) THEN DBot
  ELSE Env(IMeet(a.x, b.x), IMeet(a.y, b.y))

DWiden(a, b) ==
  IF DIsBot(a) THEN b
  ELSE IF DIsBot(b) THEN a
  ELSE Env(IWiden(a.x, b.x), IWiden(a.y, b.y))

DWidenThresholds(a, b, ts) ==
  IF DIsBot(a) THEN b
  ELSE IF DIsBot(b) THEN a
  ELSE Env(IWidenThresholds(a.x, b.x, ts), IWidenThresholds(a.y, b.y, ts))

DNarrow(a, b) ==
  IF DIsBot(a) \/ DIsBot(b) THEN DBot
  ELSE Env(INarrow(a.x, b.x), INarrow(a.y, b.y))

\* set(v, intv)
DSet(d, v, i) ==
  IF DIsBot(d) \/ IIsBot(i) THEN DBot ELSE [d EXCEPT ![v] = i]

\* a linear expression: the constant k, or the variable var plus k
Cst(n) == [var |-> "none", k |-> n]

VarPlus(w, n) == [var |-> w, k |-> n]

Eval(d, e) ==
  IF e.var = "none" THEN Itv(Fin(e.k), Fin(e.k))
  ELSE [lb |-> BAdd(d[e.var].lb, e.k), ub |-> BAdd(d[e.var].ub, e.k)]

\* assign(x, e), and apply(OP_ADDITION, x, y, k) as x := y + k
DAssign(d, v, e) == IF DIsBot(d) THEN DBot ELSE DSet(d, v, Eval(d, e))

\* operator-=(v)
DForget(d, v) == DSet(d, v, ITop)

\* expand(x, new_x): new_x becomes a copy of x
DExpand(d, v, new_v) == DSet(d, new_v, d[v])

\* a linear constraint system: true, false, v <= k or v >= k
CTrue == [kind |-> "true", var |-> "none", k |-> 0]

CFalse == [kind |-> "false", var |-> "none", k |-> 0]

CLe(v, n) == [kind |-> "le", var |-> v, k |-> n]

CGe(v, n) == [kind |-> "ge", var |-> v, k |-> n]

\* operator+=(csts)
DAddConstraints(d, c) ==
  CASE c.kind = "true"  -> d
    [] c.kind = "false" -> DBot
    [] c.kind = "le"    -> IF DIsBot(d) THEN DBot
                           ELSE DSet(d, c.var, IMeet(d[c.var], Itv(NInf, Fin(c.k))))
    [] c.kind = "ge"    -> IF DIsBot(d) THEN DBot
                           ELSE DSet(d, c.var, IMeet(d[c.var], Itv(Fin(c.k), PInf)))

\* the concrete valuations a base value describes
Describes(d, pt) ==
  /\ ~DIsBot(d)
  /\ \A v \in Variables :
       BLe(d[v].lb, Fin(pt[v])) /\ BLe(Fin(pt[v]), d[v].ub)

(***************************************************************************)
(* State of one interleaved_fwd_fixpoint_iterator and of its run.          *)
(***************************************************************************)
VARIABLES
  _cfg,                    \* the control-flow graph
  _wto,                    \* its weak topological ordering
  _pre, _post,             \* the invariant tables: node -> value, partial
  _widening_threshold,
  _narrowing_iterations,
  _use_widening_jump_set,
  _jump_set,
  init,                    \* the argument of run
  pc,                      \* "start", "iterate", "process", "done"
  stack,                   \* the visits of wto_iterator in progress
  todo,                    \* the nodes wto_processor has still to report
  rep_pre, rep_post,       \* what process_pre / process_post were given
  max_disjuncts,           \* Params::max_disjuncts of the powerset domain
  exact_meet,              \* Params::exact_meet
  m_disjuncts,             \* the disjuncts of a powerset value
  op,                      \* the last operation applied to it
  other,                   \* the operand of that operation, [top] if it has none
  m_before,                \* the disjuncts before that operation
  ret,                     \* what it returned: <<>> for void, else <<value>>
  oob,                     \* "none", or what became of the call that indexed
                           \* m_disjuncts out of range: "survived", "crashed"
  _is_bottom,              \* the members of one anti_unif value
  _ttbl,                   \* the term table
  _impl,                   \* the base value over the proxy variables
  _alloc,                  \* the allocator of proxy variables
  _var_map,                \* variable -> term
  _term_map,               \* term -> proxy variable
  changed_terms,           \* the terms normalize has still to look at
  t_values,                \* the other values there are, operands of its calls
  t_call,                  \* the last call made on the value
  t_other,                 \* <<operand>> of that call, <<>> if it has none
  t_ret,                   \* <<what it returned>>, <<>> for void
  t_nops,                  \* the number of calls made so far
  t_before,                \* <<the value before that call>>, <<>> at first
  t_prev                   \* the call made before that call

ivars == <<_cfg, _wto, _pre, _post, _widening_threshold, _narrowing_iterations,
           _use_widening_jump_set, _jump_set, init, pc, stack, todo,
           rep_pre, rep_post>>

pvars == <<max_disjuncts, exact_meet, m_disjuncts, op, other, m_before, ret, oob>>

tvars == <<_is_bottom, _ttbl, _impl, _alloc, _var_map, _term_map, changed_terms,
           t_values, t_call, t_other, t_ret, t_nops, t_before, t_prev>>

vars == <<ivars, pvars, tvars>>

Nodes == DOMAIN _cfg.tr

EmptyTable == <<>>

\* interleaved_fwd_fixpoint_iterator::set
set(table, node, v) ==
  [n \in (DOMAIN table) \cup {node} |-> IF n = node THEN v ELSE table[n]]

\* interleaved_fwd_fixpoint_iterator::get: bottom when nothing is recorded
get(table, n) == IF n \in DOMAIN table THEN table[n] ELSE IBot

\* the analyzer callback on the block of a node
analyze(node, pre) == RunStmts(_cfg.tr[node], pre)

nesting(n) == NestingIn(_wto, n, <<>>)

\* the join of the post-states of the nodes of prevs, in order
RECURSIVE JoinPosts(_, _, _)
JoinPosts(post, prevs, acc) ==
  IF prevs = <<>> THEN acc
  ELSE JoinPosts(post, Tail(prevs), IJoin(acc, get(post, Head(prevs))))

\* extrapolate joining one iteration fewer
extrapolate_early(iteration, before, after) ==
  IF iteration < _widening_threshold THEN IJoin(before, after)
  ELSE IF _use_widening_jump_set THEN IWidenThresholds(before, after, _jump_set)
  ELSE IWiden(before, after)

\* interleaved_fwd_fixpoint_iterator::extrapolate
extrapolate(iteration, before, after) ==
  IF iteration <= _widening_threshold THEN IJoin(before, after)
  ELSE IF _use_widening_jump_set THEN IWidenThresholds(before, after, _jump_set)
  ELSE IWiden(before, after)

\* refine by narrowing from the first iteration
refine_narrowing(iteration, before, after) ==
  IF iteration = 0 THEN IMeet(before, after) ELSE INarrow(before, after)

\* interleaved_fwd_fixpoint_iterator::refine
refine(iteration, before, after) ==
  IF iteration = 1 THEN IMeet(before, after) ELSE INarrow(before, after)


\* wto_iterator::visit(wto_vertex_t&): the pre-state of a vertex
VertexPre(node) ==
  IF node = _cfg.entry THEN get(_pre, node)
  ELSE JoinPosts(_post, _cfg.prev[node], IBot)

\* the predecessors of head that are not nested deeper than the cycle
RECURSIVE OutsidePrevs(_, _)
OutsidePrevs(prevs, cycle_nesting) ==
  IF prevs = <<>> THEN <<>>
  ELSE IF ~NestingGt(nesting(Head(prevs)), cycle_nesting)
       THEN <<Head(prevs)>> \o OutsidePrevs(Tail(prevs), cycle_nesting)
       ELSE OutsidePrevs(Tail(prevs), cycle_nesting)

\* wto_iterator::visit(wto_cycle_t&): the pre-state the ascending loop starts from
CyclePre(head) ==
  JoinPosts(_post, OutsidePrevs(_cfg.prev[head], nesting(head)), IBot)

\* new_pre taken over the predecessors outside the cycle only
NewPre_outside(head) ==
  JoinPosts(_post, OutsidePrevs(_cfg.prev[head], nesting(head)), IBot)

\* wto_iterator::visit(wto_cycle_t&): new_pre, the join over all predecessors
NewPre(head) == JoinPosts(_post, _cfg.prev[head], IBot)

\* the ascending loop ended by a strict comparison
PostFixpointReached_strict(new_pre, pre) == ILeq(new_pre, pre) /\ new_pre # pre

\* the test that ends the ascending loop
PostFixpointReached(new_pre, pre) == ILeq(new_pre, pre)

\* the test that ends the descending loop by stability
NoMoreRefinement(pre, new_pre) == ILeq(pre, new_pre)

\* the cap tested one iteration late
NarrowingCapReached_late(iteration) == iteration > _narrowing_iterations + 1

\* the test that ends the descending loop by the cap
NarrowingCapReached(iteration) == iteration > _narrowing_iterations

\* ++iteration, not counted beyond MaxIteration
NextIteration(iteration) ==
  IF iteration < MaxIteration THEN iteration + 1 ELSE iteration

(***************************************************************************)
(* The visits in progress.  A frame is the traversal of a sequence of      *)
(* components: the whole ordering (phase "top") or the body of a cycle in  *)
(* its ascending ("asc") or descending ("desc") loop.  idx = 0: the head   *)
(* is to be analysed; 1 .. Len(comps): that component is visited next;     *)
(* Len(comps) + 1: the body is done.                                       *)
(***************************************************************************)
Frame(c, i, h, ph, it, p) ==
  [comps |-> c, idx |-> i, head |-> h, phase |-> ph, iteration |-> it, pre |-> p]

TopFrame == stack[Len(stack)]

SetTop(f) == [stack EXCEPT ![Len(stack)] = f]

\* the visit of the cycle returns to the traversal that holds it
Return ==
  LET rest == SubSeq(stack, 1, Len(stack) - 1)
  IN  [rest EXCEPT ![Len(rest)].idx = @ + 1]

AtComponent == pc = "iterate" /\ TopFrame.idx \in 1..Len(TopFrame.comps)

BodyDone(ph) ==
  /\ pc = "iterate"
  /\ TopFrame.phase = ph
  /\ TopFrame.idx = Len(TopFrame.comps) + 1

Config == <<_cfg, _wto, _widening_threshold, _narrowing_iterations,
            _use_widening_jump_set, _jump_set, init>>

Reports == <<todo, rep_pre, rep_post>>

\* the run of the iterator works on intervals: no powerset value is in use
NoPowerset ==
  /\ max_disjuncts = 1
  /\ exact_meet = FALSE
  /\ m_disjuncts = <<DTop>>
  /\ op = "none"
  /\ other = <<DTop>>
  /\ m_before = <<DTop>>
  /\ ret = <<>>
  /\ oob = "none"

\* nor any value of the term domain
NoTerms ==
  /\ _is_bottom = FALSE
  /\ _ttbl = <<>>
  /\ _impl = [bot |-> FALSE, env |-> <<>>]
  /\ _alloc = 0
  /\ _var_map = <<>>
  /\ _term_map = <<>>
  /\ changed_terms = {}
  /\ t_values = <<>>
  /\ t_call = "none"
  /\ t_other = <<>>
  /\ t_ret = <<>>
  /\ t_nops = 0
  /\ t_before = <<>>
  /\ t_prev = "none"

Init ==
  /\ _cfg \in CFGs
  /\ _wto = _cfg.wto
  /\ _pre = EmptyTable
  /\ _post = EmptyTable
  /\ _widening_threshold \in 0..MaxWideningThreshold
  /\ _narrowing_iterations \in 0..MaxNarrowingIterations
  /\ _use_widening_jump_set \in BOOLEAN
  /\ _jump_set = IF _use_widening_jump_set THEN _cfg.thresholds ELSE {}
  /\ init \in InitialValues
  /\ pc = "start"
  /\ stack = <<>>
  /\ todo = <<>>
  /\ rep_pre = EmptyTable
  /\ rep_post = EmptyTable
  /\ NoPowerset
  /\ NoTerms

\* run: record the initial value at the entry and start the traversal
Run ==
  /\ pc = "start"
  /\ _pre' = set(_pre, _cfg.entry, init)
  /\ stack' = <<Frame(_wto, 1, "", "top", 0, IBot)>>
  /\ pc' = "iterate"
  /\ UNCHANGED <<Config, _post, Reports, pvars, tvars>>

\* visit(wto_vertex_t&)
VisitVertex ==
  /\ AtComponent
  /\ ~TopFrame.comps[TopFrame.idx].cyc
  /\ LET node == TopFrame.comps[TopFrame.idx].node
         pre == VertexPre(node)
     IN  /\ _pre' = IF node = _cfg.entry THEN _pre ELSE set(_pre, node, pre)
         /\ _post' = set(_post, node, analyze(node, pre))
  /\ stack' = SetTop([TopFrame EXCEPT !.idx = @ + 1])
  /\ UNCHANGED <<Config, pc, Reports, pvars, tvars>>

\* visit(wto_cycle_t&): entered, before the first ascending iteration
EnterCycle ==
  /\ AtComponent
  /\ TopFrame.comps[TopFrame.idx].cyc
  /\ LET c == TopFrame.comps[TopFrame.idx]
     IN  stack' = Append(stack, Frame(c.body, 0, c.node, "asc", 1, CyclePre(c.node)))
  /\ UNCHANGED <<Config, _pre, _post, pc, Reports, pvars, tvars>>

\* ascending loop: the head is recorded and analysed, then the body follows
AscAnalyzeHead ==
  /\ pc = "iterate"
  /\ TopFrame.phase = "asc"
  /\ TopFrame.idx = 0
  /\ _pre' = set(_pre, TopFrame.head, TopFrame.pre)
  /\ _post' = set(_post, TopFrame.head, analyze(TopFrame.head, TopFrame.pre))
  /\ stack' = SetTop([TopFrame EXCEPT !.idx = 1])
  /\ UNCHANGED <<Config, pc, Reports, pvars, tvars>>

\* ascending loop: new_pre <= pre, the post-fixpoint is reached
AscStable ==
  /\ BodyDone("asc")
  /\ LET new_pre == NewPre(TopFrame.head)
     IN  /\ PostFixpointReached(new_pre, TopFrame.pre)
         /\ _pre' = set(_pre, TopFrame.head, new_pre)
         /\ stack' = SetTop([TopFrame EXCEPT !.pre = new_pre, !.phase = "desc",
                                             !.iteration = 1, !.idx = 0])
  /\ UNCHANGED <<Config, _post, pc, Reports, pvars, tvars>>

\* ascending loop: pre is extrapolated and the loop goes round again
AscExtrapolate ==
  /\ BodyDone("asc")
  /\ LET new_pre == NewPre(TopFrame.head)
     IN  /\ ~PostFixpointReached(new_pre, TopFrame.pre)
         /\ stack' = SetTop([TopFrame EXCEPT
                               !.pre = extrapolate(TopFrame.iteration, TopFrame.pre, new_pre),
                               !.iteration = NextIteration(@), !.idx = 0])
  /\ UNCHANGED <<Config, _pre, _post, pc, Reports, pvars, tvars>>

\* descending loop: the head is analysed again, then the body follows
DescAnalyzeHead ==
  /\ pc = "iterate"
  /\ TopFrame.phase = "desc"
  /\ TopFrame.idx = 0
  /\ _post' = set(_post, TopFrame.head, analyze(TopFrame.head, TopFrame.pre))
  /\ stack' = SetTop([TopFrame EXCEPT !.idx = 1])
  /\ UNCHANGED <<Config, _pre, pc, Reports, pvars, tvars>>

\* descending loop: pre <= new_pre, the visit of the cycle ends
DescStable ==
  /\ BodyDone("desc")
  /\ NoMoreRefinement(TopFrame.pre, NewPre(TopFrame.head))
  /\ stack' = Return
  /\ UNCHANGED <<Config, _pre, _post, pc, Reports, pvars, tvars>>

\* descending loop: the cap on narrowing iterations ends the visit
DescCap ==
  /\ BodyDone("desc")
  /\ ~NoMoreRefinement(TopFrame.pre, NewPre(TopFrame.head))
  /\ NarrowingCapReached(TopFrame.iteration)
  /\ stack' = Return
  /\ UNCHANGED <<Config, _pre, _post, pc, Reports, pvars, tvars>>

\* descending loop: pre is refined, recorded, and the loop goes round again
DescRefine ==
  /\ BodyDone("desc")
  /\ ~NoMoreRefinement(TopFrame.pre, NewPre(TopFrame.head))
  /\ ~NarrowingCapReached(TopFrame.iteration)
  /\ LET pre == refine(TopFrame.iteration, TopFrame.pre, NewPre(TopFrame.head))
     IN  /\ _pre' = set(_pre, TopFrame.head, pre)
         /\ stack' = SetTop([TopFrame EXCEPT !.pre = pre,
                                             !.iteration = NextIteration(@), !.idx = 0])
  /\ UNCHANGED <<Config, _post, pc, Reports, pvars, tvars>>

\* run: the traversal of wto_iterator is over, wto_processor starts
StartProcessor ==
  /\ BodyDone("top")
  /\ pc' = "process"
  /\ stack' = <<>>
  /\ todo' = Flatten(_wto)
  /\ UNCHANGED <<Config, _pre, _post, rep_pre, rep_post, pvars, tvars>>

\* wto_processor::visit: one node is reported
ProcessNode ==
  /\ pc = "process"
  /\ todo # <<>>
  /\ rep_pre' = set(rep_pre, Head(todo), get(_pre, Head(todo)))
  /\ rep_post' = set(rep_post, Head(todo), get(_post, Head(todo)))
  /\ todo' = Tail(todo)
  /\ UNCHANGED <<Config, _pre, _post, pc, stack, pvars, tvars>>

\* run: both tables are released
Finish ==
  /\ pc = "process"
  /\ todo = <<>>
  /\ _pre' = EmptyTable
  /\ _post' = EmptyTable
  /\ pc' = "done"
  /\ UNCHANGED <<Config, stack, Reports, pvars, tvars>>

Next ==
  \/ Run
  \/ VisitVertex
  \/ EnterCycle
  \/ AscAnalyzeHead
  \/ AscStable
  \/ AscExtrapolate
  \/ DescAnalyzeHead
  \/ DescStable
  \/ DescCap
  \/ DescRefine
  \/ StartProcessor
  \/ ProcessNode
  \/ Finish

Spec == Init /\ [][Next]_vars

\* the runs on which termination is checked: the simple loop, loops with two
\* guarded paths back to the head, and nested loops, all started from i = 0
LiveCFGs ==
  {SimpleLoop}
  \cup {g \in Loops : g.tr["head"] = <<>> /\ Len(g.tr["c"]) = 2}
  \cup {g \in NestedLoops :
          /\ g.tr["c2"] \in {<<St("set", 0)>>, <<St("set", 2)>>}
          /\ g.tr["h1"] \in {<<St("add", -1)>>, <<St("le", 2)>>}
          /\ g.tr["h2"] \in {<<St("add", -1)>>, <<St("le", 2)>>}}

InitLive == Init /\ _cfg \in LiveCFGs /\ init = Itv(Fin(0), Fin(0))

\* run is one sequential call: it goes on until it returns
SpecLive == InitLive /\ [][Next]_vars /\ WF_vars(Next)

\* the iteration counters stay below the value at which the model stops counting
IterationBelowCap ==
  \A k \in 1..Len(stack) : stack[k].iteration < MaxIteration


(***************************************************************************)
(* Properties of the fixpoint iterator.                                    *)
(***************************************************************************)
\* the wto vertices of the graph: the nodes that are not the head of a cycle
RECURSIVE Heads(_)
Heads(comps) ==
  IF comps = <<>> THEN {}
  ELSE (IF Head(comps).cyc THEN {Head(comps).node} ELSE {})
       \cup Heads(Head(comps).body) \cup Heads(Tail(comps))

\* C1: fixpoint monotonicity.  When run has finished, the values reported for
\* every node n satisfy pre(n) >= join of post(p) over the predecessors p of
\* n, and post(n) >= transfer(n, pre(n)).
C1_FixpointMonotonicity ==
  pc = "done" =>
    \A n \in Nodes :
      /\ ILeq(JoinPosts(rep_post, _cfg.prev[n], IBot), get(rep_pre, n))
      /\ ILeq(analyze(n, get(rep_pre, n)), get(rep_post, n))

\* C2: run terminates: the traversal reaches the processor pass and completes.
C2_RunTerminates == <>(pc = "done")

\* a run over the nested loops, started from i = 0, that has completed after
\* widening at the head of the inner loop (only widening makes a bound infinite)
C2_Witness ==
  /\ pc = "done"
  /\ _cfg.name = "nested"
  /\ _widening_threshold = 1
  /\ ~IIsBot(get(rep_pre, "h2"))
  /\ (get(rep_pre, "h2").lb = NInf \/ get(rep_pre, "h2").ub = PInf)

\* C3: narrowing_iterations is a hard cap.  In the descending loop of every
\* cycle visit in progress, iteration - 1 refinements have been applied, and
\* that number never exceeds narrowing_iterations (so with
\* narrowing_iterations = 0 the pre-state of the head is never refined); the
\* head and the body are analysed at most narrowing_iterations + 1 times.
C3_NarrowingCap ==
  \A k \in 1..Len(stack) :
    stack[k].phase = "desc" => stack[k].iteration <= _narrowing_iterations + 1

\* a descending loop that refined narrowing_iterations >= 1 times and is now
\* stopped by the cap although pre is not stable
C3_Witness ==
  /\ BodyDone("desc")
  /\ _narrowing_iterations >= 1
  /\ ~NoMoreRefinement(TopFrame.pre, NewPre(TopFrame.head))
  /\ NarrowingCapReached(TopFrame.iteration)
  /\ TopFrame.iteration = _narrowing_iterations + 1

\* C4: when the iteration pass is over, the pre-state recorded at the entry
\* node, and used for it, is the initial value passed to run, and the
\* pre-state of every other vertex is the join of the post-states of all of
\* its predecessors.
C4_EntryPreIsInitial ==
  pc = "process" =>
    /\ get(_pre, _cfg.entry) = init
    /\ get(_post, _cfg.entry) = analyze(_cfg.entry, init)
    /\ \A n \in Nodes \ (Heads(_wto) \cup {_cfg.entry}) :
         get(_pre, n) = JoinPosts(_post, _cfg.prev[n], IBot)

\* the runs of the simple loop that C5 is about
SimpleLoopRun ==
  /\ pc = "done"
  /\ _cfg = SimpleLoop
  /\ _widening_threshold = 1
  /\ _narrowing_iterations >= 1

\* C5 as stated: on the simple loop with widening_threshold = 1 and
\* narrowing_iterations >= 1 the pre-state reported at head is 0 <= i <= 10.
C5_HeadPreUpTo10 ==
  SimpleLoopRun => get(rep_pre, "head") = Itv(Fin(0), Fin(10))

\* C5 amended: the pre-state reported at head is 0 <= i <= 11; it is the
\* post-state of head, after its assume (i <= 10), that is 0 <= i <= 10.
C5_HeadPreUpTo11 ==
  SimpleLoopRun =>
    /\ get(rep_pre, "head") = Itv(Fin(0), Fin(11))
    /\ get(rep_post, "head") = Itv(Fin(0), Fin(10))

\* a finished run of the simple loop, started from the unconstrained value
C5_Witness == SimpleLoopRun /\ init = ITop /\ "head" \in DOMAIN rep_pre

(***************************************************************************)
(* powerset_domain<Domain, Params>: a value is the vector m_disjuncts of   *)
(* base values.  The operators below take and return such vectors.         *)
(***************************************************************************)
MaxDisjuncts == 2

MaxValue == 2

is_bottom(m) == \A i \in 1..Len(m) : DIsBot(m[i])

is_top(m) == \E i \in 1..Len(m) : DIsTop(m[i])

set_to_top == <<DTop>>

set_to_bottom == <<DBot>>

normalize_if_top(m) == IF \E i \in 1..Len(m) : DIsTop(m[i]) THEN set_to_top ELSE m

\* res = disjuncts[0]; res |= disjuncts[i] for i = 1 .. sz-1
RECURSIVE JoinFrom(_, _, _)
JoinFrom(m, i, res) ==
  IF i > Len(m) THEN res ELSE JoinFrom(m, i + 1, DJoin(res, m[i]))

smash_disjuncts_first(pw) ==
  IF is_bottom(pw) THEN DBot
  ELSE IF is_top(pw) THEN DTop
  ELSE pw[1]
\* smash_disjuncts(const powerset_domain_t &pw) const
smash_disjuncts(pw) ==
  IF is_bottom(pw) THEN DBot
  ELSE IF is_top(pw) THEN DTop
  ELSE JoinFrom(pw, 2, pw[1])

\* smash_disjuncts(), in place: what m_disjuncts is afterwards
smash_disjuncts_this(m) ==
  LET m1 == IF is_bottom(m) THEN set_to_bottom
            ELSE IF is_top(m) THEN set_to_top
            ELSE m
  IN  <<JoinFrom(m1, 2, m1[1])>>

\* insert without the test of dominance
insert_always(vec, dom) == Append(vec, dom)

insert(vec, dom) ==
  IF \E i \in 1..Len(vec) : DLeq(dom, vec[i]) THEN vec ELSE Append(vec, dom)

RECURSIVE append(_, _)
append(vec1, vec2) ==
  IF vec2 = <<>> THEN vec1
  ELSE append(insert(vec1, Head(vec2)), Tail(vec2))

\* powerset_domain(Domain &&dom)
FromDomain(dom) == normalize_if_top(<<dom>>)

FromVector_nosmash(powerset) ==
  normalize_if_top(powerset)
\* powerset_domain(base_dom_vector &&powerset)
FromVector(powerset) ==
  LET m == normalize_if_top(powerset)
  IN  IF Len(m) > max_disjuncts THEN smash_disjuncts_this(m) ELSE m

powerset_join_with(m, o) ==
  IF is_bottom(m) \/ is_top(o) THEN o
  ELSE IF is_bottom(o) \/ is_top(m) THEN m
  ELSE FromVector(append(m, o))

\* the meets m[i] & o[j], i outermost, without the bottom ones
PairwiseMeets(m, o) ==
  LET all == [k \in 1..(Len(m) * Len(o)) |->
                DMeet(m[((k - 1) \div Len(o)) + 1], o[((k - 1) % Len(o)) + 1])]
  IN  SelectSeq(all, LAMBDA d : ~DIsBot(d))

powerset_meet_with(m, o) ==
  IF is_bottom(m) \/ is_bottom(o) THEN set_to_bottom
  ELSE IF is_top(m) THEN o
  ELSE IF is_top(o) THEN m
  ELSE FromVector(PairwiseMeets(m, o))

\* operator<=
OpLeq(m, o) == DLeq(smash_disjuncts(m), smash_disjuncts(o))

\* operator|=
OpJoinAssign(m, o) ==
  IF is_top(m) \/ is_bottom(o) THEN m
  ELSE IF is_bottom(m) THEN o
  ELSE IF is_top(o) THEN set_to_top
  ELSE LET r == append(m, o)
       IN  IF Len(r) > max_disjuncts THEN smash_disjuncts_this(r) ELSE r

\* operator|
OpJoin(m, o) == powerset_join_with(m, o)

\* operator&
OpMeet(m, o) ==
  IF exact_meet THEN powerset_meet_with(m, o)
  ELSE FromDomain(DMeet(smash_disjuncts(m), smash_disjuncts(o)))

\* operator||
OpWiden(m, o) == FromDomain(DWiden(smash_disjuncts(m), smash_disjuncts(o)))

widening_thresholds(m, o, ts) ==
  FromDomain(DWidenThresholds(smash_disjuncts(m), smash_disjuncts(o), ts))

\* operator&&
OpNarrow(m, o) == FromDomain(DNarrow(smash_disjuncts(m), smash_disjuncts(o)))

\* assign(x, e) and apply(op, x, y, k)
assign(m, v, e) ==
  IF is_bottom(m) THEN m ELSE [i \in 1..Len(m) |-> DAssign(m[i], v, e)]

\* operator+=(csts)
OpAddConstraints(m, csts) ==
  IF is_bottom(m) \/ csts.kind = "true" THEN m
  ELSE LET m1 == IF csts.kind = "false" THEN set_to_bottom ELSE m
       IN  SelectSeq([i \in 1..Len(m1) |-> DAddConstraints(m1[i], csts)],
                     LAMBDA d : ~DIsBot(d))

\* the loop of operator-= and of forget from index i on, sz being the size
\* read before the loop: the vector afterwards, and whether m_disjuncts[i]
\* was used with i at or beyond the size of the vector
RECURSIVE ForgetLoop(_, _, _, _)
ForgetLoop(m, v, i, sz) ==
  IF i > sz THEN [vec |-> m, out_of_range |-> FALSE]
  ELSE IF i > Len(m) THEN [vec |-> m, out_of_range |-> TRUE]
  ELSE LET m1 == [m EXCEPT ![i] = DForget(m[i], v)]
       IN  IF DIsTop(m1[i]) THEN ForgetLoop(set_to_top, v, i + 1, sz)
           ELSE ForgetLoop(m1, v, i + 1, sz)

\* operator-=(v), forget({v})
OpForget(m, v) ==
  IF is_bottom(m) THEN [vec |-> m, out_of_range |-> FALSE]
  ELSE ForgetLoop(m, v, 1, Len(m))

\* set(v, intv)
set_interval(m, v, intv) ==
  IF is_bottom(m) THEN m ELSE [i \in 1..Len(m) |-> DSet(m[i], v, intv)]

expand(m, v, new_v) ==
  IF is_bottom(m) THEN m ELSE [i \in 1..Len(m) |-> DExpand(m[i], v, new_v)]

(***************************************************************************)
(* The calls made on one powerset value.                                   *)
(***************************************************************************)
XIs(a) == Env(Itv(Fin(a), Fin(a)), ITop)

\* the values passed as the other operand of a binary operation
Operands ==
  { <<DTop>>, <<DBot>>, <<XIs(1)>>, <<XIs(2)>>, <<XIs(0), XIs(2)>> }

IsOperand(o) == o \in Operands /\ Len(o) <= max_disjuncts

Assignments ==
  { <<"x", Cst(0)>>, <<"x", VarPlus("y", 0)>>, <<"y", Cst(0)>> }

Constraints == { CTrue, CFalse, CLe("x", 0) }

SetIntervals == { Itv(Fin(0), Fin(1)), IBot }

JumpSet == {0, 2}

\* every bound of every disjunct stays within the values the model covers
WithinValues(m) ==
  \A i \in 1..Len(m) : \A v \in Variables :
    /\ IsFin(m[i][v].lb) => m[i][v].lb[2] \in (0 - MaxValue)..MaxValue
    /\ IsFin(m[i][v].ub) => m[i][v].ub[2] \in (0 - MaxValue)..MaxValue

InitPowerset ==
  /\ _cfg = SimpleLoop
  /\ _wto = _cfg.wto
  /\ _pre = EmptyTable
  /\ _post = EmptyTable
  /\ _widening_threshold = 0
  /\ _narrowing_iterations = 0
  /\ _use_widening_jump_set = FALSE
  /\ _jump_set = {}
  /\ init = ITop
  /\ pc = "powerset"
  /\ stack = <<>>
  /\ todo = <<>>
  /\ rep_pre = EmptyTable
  /\ rep_post = EmptyTable
  /\ max_disjuncts \in 1..MaxDisjuncts
  /\ exact_meet \in BOOLEAN
  /\ m_disjuncts = <<DTop>>
  /\ op = "powerset_domain"
  /\ other = <<DTop>>
  /\ m_before = <<DTop>>
  /\ ret = <<>>
  /\ oob = "none"
  /\ NoTerms

\* one call: its name, its powerset argument ([top] if none), the vector it
\* leaves, what it returns
Call(name, arg, result, r) ==
  /\ pc = "powerset"
  /\ oob # "crashed"
  /\ m_disjuncts' = result
  /\ op' = name
  /\ other' = arg
  /\ m_before' = m_disjuncts
  /\ ret' = r
  /\ oob' = "none"
  /\ UNCHANGED <<ivars, max_disjuncts, exact_meet, tvars>>

SetToTop == Call("set_to_top", <<DTop>>, set_to_top, <<>>)

SetToBottom == Call("set_to_bottom", <<DTop>>, set_to_bottom, <<>>)

Leq ==
  \E o \in Operands :
    /\ IsOperand(o)
    /\ Call("operator<=", o, m_disjuncts, <<OpLeq(m_disjuncts, o)>>)

JoinAssign ==
  \E o \in Operands :
    /\ IsOperand(o)
    /\ Call("operator|=", o, OpJoinAssign(m_disjuncts, o), <<>>)

\* the by-value operations are modelled as x = x op other
Join ==
  \E o \in Operands :
    /\ IsOperand(o)
    /\ Call("operator|", o, OpJoin(m_disjuncts, o), <<>>)

Meet ==
  \E o \in Operands :
    /\ IsOperand(o)
    /\ Call("operator&", o, OpMeet(m_disjuncts, o), <<>>)

Widen ==
  \E o \in Operands :
    /\ IsOperand(o)
    /\ Call("operator||", o, OpWiden(m_disjuncts, o), <<>>)

WidenThresholds ==
  \E o \in Operands :
    /\ IsOperand(o)
    /\ Call("widening_thresholds", o,
            widening_thresholds(m_disjuncts, o, JumpSet), <<>>)

Narrow ==
  \E o \in Operands :
    /\ IsOperand(o)
    /\ Call("operator&&", o, OpNarrow(m_disjuncts, o), <<>>)

Assign ==
  \E a \in Assignments :
    Call("assign", <<DTop>>, assign(m_disjuncts, a[1], a[2]), <<>>)

\* apply(OP_ADDITION, x, x, 1)
Apply ==
  /\ WithinValues(assign(m_disjuncts, "x", VarPlus("x", 1)))
  /\ Call("apply", <<DTop>>, assign(m_disjuncts, "x", VarPlus("x", 1)), <<>>)

AddConstraints ==
  \E csts \in Constraints :
    Call("operator+=", <<DTop>>, OpAddConstraints(m_disjuncts, csts), <<>>)

\* operator-= and forget.  A use of m_disjuncts[i] beyond the size of the
\* vector is undefined: the call either crashes or goes on, and then the
\* vector is still the [top] that set_to_top left
Forget ==
  \E v \in Variables :
    LET r == OpForget(m_disjuncts, v)
    IN  /\ pc = "powerset"
        /\ oob # "crashed"
        /\ m_disjuncts' = r.vec
        /\ op' = "operator-="
        /\ other' = <<DTop>>
        /\ m_before' = m_disjuncts
        /\ ret' = <<>>
        /\ IF r.out_of_range THEN oob' \in {"survived", "crashed"}
                             ELSE oob' = "none"
        /\ UNCHANGED <<ivars, max_disjuncts, exact_meet, tvars>>

SetInterval ==
  \E intv \in SetIntervals :
    Call("set", <<DTop>>, set_interval(m_disjuncts, "x", intv), <<>>)

Expand ==
  Call("expand", <<DTop>>, expand(m_disjuncts, "y", "x"), <<>>)

\* to_linear_constraint_system and operator[] smash the value they are
\* called on and leave it as it is
ToLinearConstraintSystem ==
  Call("to_linear_constraint_system", <<DTop>>, m_disjuncts,
       <<smash_disjuncts(m_disjuncts)>>)

NextPowerset ==
  \/ SetToTop
  \/ SetToBottom
  \/ Leq
  \/ JoinAssign
  \/ Join
  \/ Meet
  \/ Widen
  \/ WidenThresholds
  \/ Narrow
  \/ Assign
  \/ Apply
  \/ AddConstraints
  \/ Forget
  \/ SetInterval
  \/ Expand
  \/ ToLinearConstraintSystem

SpecPowerset == InitPowerset /\ [][NextPowerset]_vars


(***************************************************************************)
(* Properties of the powerset domain.                                      *)
(***************************************************************************)
\* the concrete valuations over which inclusion of disjunctions is compared
Valuations == [Variables -> (0 - MaxValue - 1)..(MaxValue + 1)]

\* some disjunct of m describes pt
DescribedBy(m, pt) == \E i \in 1..Len(m) : Describes(m[i], pt)

\* the representation the operations are meant to keep: no bottom disjunct
\* unless the value is [bottom], no top disjunct unless it is [top]
Normalised(m) ==
  /\ (\E i \in 1..Len(m) : DIsBot(m[i])) => m = <<DBot>>
  /\ (\E i \in 1..Len(m) : DIsTop(m[i])) => m = <<DTop>>

\* the base-domain join of all the disjuncts of m
RECURSIVE JoinAll(_)
JoinAll(m) == IF m = <<>> THEN DBot ELSE DJoin(Head(m), JoinAll(Tail(m)))

ElementwiseOps == {"assign", "apply", "operator+=", "operator-=", "set", "expand"}

\* C6: a powerset value never holds the empty sequence of disjuncts, and a
\* bottom value is the one-element sequence [bottom].
C6_NeverEmpty ==
  /\ Len(m_disjuncts) >= 1
  /\ is_bottom(m_disjuncts) => m_disjuncts = <<DBot>>

\* C7: the number of disjuncts never exceeds max_disjuncts.
C7_AtMostMaxDisjuncts == Len(m_disjuncts) <= max_disjuncts

\* a join in place that collected more than max_disjuncts disjuncts
C7_Witness ==
  /\ op = "operator|="
  /\ ~is_top(m_before) /\ ~is_bottom(m_before)
  /\ ~is_top(other) /\ ~is_bottom(other)
  /\ Len(append(m_before, other)) > max_disjuncts
  /\ max_disjuncts = MaxDisjuncts

\* C8: smashing a value gives an upper bound of every disjunct, namely the
\* base-domain join of all of them; a bottom value smashes to bottom, a value
\* with a top disjunct to top; this is what to_linear_constraint_system
\* works on and what the smash in place leaves as the only disjunct.
C8_SmashSound ==
  LET s == smash_disjuncts(m_disjuncts)
  IN  /\ \A i \in 1..Len(m_disjuncts) : DLeq(m_disjuncts[i], s)
      /\ s = JoinAll(m_disjuncts)
      /\ is_bottom(m_disjuncts) => s = DBot
      /\ is_top(m_disjuncts) => s = DTop
      /\ smash_disjuncts_this(m_disjuncts) = <<s>>
      /\ op = "to_linear_constraint_system" => ret = <<s>>

\* a value of two disjuncts, neither below the other, has been smashed
C8_Witness ==
  /\ op = "to_linear_constraint_system"
  /\ Len(m_disjuncts) = 2
  /\ ~DLeq(m_disjuncts[1], m_disjuncts[2])
  /\ ~DLeq(m_disjuncts[2], m_disjuncts[1])
  /\ ret[1] # m_disjuncts[1]
  /\ ret[1] # DTop

\* C9: after every elementwise operation the stored sequence is normalised:
\* no bottom disjunct unless it is [bottom], and [top] if a disjunct is top.
C9_ElementwiseNormalised ==
  (op \in ElementwiseOps /\ oob # "crashed") => Normalised(m_disjuncts)

\* C10: operator<= returns base_leq(smash(a), smash(b)), and when it returns
\* true every valuation described by a disjunct of a is described by a
\* disjunct of b.
C10_LeqSound ==
  op = "operator<=" =>
    /\ ret = <<DLeq(smash_disjuncts(m_before), smash_disjuncts(other))>>
    /\ ret = <<TRUE>> =>
         \A pt \in Valuations : DescribedBy(m_before, pt) => DescribedBy(other, pt)

(***************************************************************************)
(* Interval arithmetic, and the interval domain over the proxy variables   *)
(* of the term domain (the base domain dom_t the tests instantiate         *)
(* anti_unif with).  A proxy variable is named by a natural number.  A     *)
(* base state is bottom, or binds the proxies that are not top.            *)
(***************************************************************************)
\* the element of a set of one element: The({ e : a \in {d} }) is e with d for a
The(S) == CHOOSE a \in S : TRUE

BNeg(a) == <<0 - a[1], 0 - a[2]>>

\* a + b for bounds that are not opposite infinities
BPlus(a, b) ==
  IF IsFin(a) /\ IsFin(b) THEN Fin(a[2] + b[2])
  ELSE IF IsFin(a) THEN b
  ELSE a

Sign(n) == IF n > 0 THEN 1 ELSE IF n < 0 THEN 0 - 1 ELSE 0

BSign(a) == IF IsFin(a) THEN Sign(a[2]) ELSE a[1]

\* a * b, with 0 * oo = 0
BTimes(a, b) ==
  IF IsFin(a) /\ IsFin(b) THEN Fin(a[2] * b[2])
  ELSE IF BSign(a) = 0 \/ BSign(b) = 0 THEN Fin(0)
  ELSE IF BSign(a) = BSign(b) THEN PInf
  ELSE NInf

BMinOf(S) == CHOOSE a \in S : \A b \in S : BLe(a, b)

BMaxOf(S) == CHOOSE a \in S : \A b \in S : BLe(b, a)

IAdd(a, b) ==
  IF IIsBot(a) \/ IIsBot(b) THEN IBot
  ELSE [lb |-> BPlus(a.lb, b.lb), ub |-> BPlus(a.ub, b.ub)]

ISub(a, b) ==
  IF IIsBot(a) \/ IIsBot(b) THEN IBot
  ELSE [lb |-> BPlus(a.lb, BNeg(b.ub)), ub |-> BPlus(a.ub, BNeg(b.lb))]

IMul(a, b) ==
  IF IIsBot(a) \/ IIsBot(b) THEN IBot
  ELSE LET P == { BTimes(a.lb, b.lb), BTimes(a.lb, b.ub),
                  BTimes(a.ub, b.lb), BTimes(a.ub, b.ub) }
       IN  [lb |-> BMinOf(P), ub |-> BMaxOf(P)]

ISingleton(a) == ~IIsBot(a) /\ a.lb = a.ub /\ IsFin(a.lb)

\* a / b where b is the singleton 1 or -1; any other divisor gives top
IDiv(a, b) ==
  IF IIsBot(a) \/ IIsBot(b) THEN IBot
  ELSE IF b = Itv(Fin(1), Fin(1)) THEN a
  ELSE IF b = Itv(Fin(-1), Fin(-1)) THEN [lb |-> BNeg(a.ub), ub |-> BNeg(a.lb)]
  ELSE ITop

\* a without the value n, when n is one of its bounds
ITrim(a, n) ==
  IF IIsBot(a) THEN IBot
  ELSE IF a.lb = Fin(n) THEN Itv(Fin(n + 1), a.ub)
  ELSE IF a.ub = Fin(n) THEN Itv(a.lb, Fin(n - 1))
  ELSE a

IArith(f, a, b) ==
  CASE f = "+" -> IAdd(a, b)
    [] f = "-" -> ISub(a, b)
    [] f = "*" -> IMul(a, b)

NoBindings == [p \in {} |-> ITop]

BaseTop == [bot |-> FALSE, env |-> NoBindings]

BaseBot == [bot |-> TRUE, env |-> NoBindings]

BaseGet(d, p) ==
  IF d.bot THEN IBot
  ELSE IF p \in DOMAIN d.env THEN d.env[p]
  ELSE ITop

\* set(p, i)
BaseSet(d, p, i) ==
  IF d.bot \/ IIsBot(i) THEN BaseBot
  ELSE IF IIsTop(i)
    THEN [bot |-> FALSE, env |-> [q \in DOMAIN d.env \ {p} |-> d.env[q]]]
    ELSE [bot |-> FALSE,
          env |-> [q \in DOMAIN d.env \cup {p} |-> IF q = p THEN i ELSE d.env[q]]]

\* operator-=(p)
BaseForget(d, p) ==
  IF d.bot THEN BaseBot
  ELSE [bot |-> FALSE, env |-> [q \in DOMAIN d.env \ {p} |-> d.env[q]]]

\* assign(p, q) and assign(p, n)
BaseAssignVar(d, p, q) == BaseSet(d, p, BaseGet(d, q))

BaseAssignConst(d, p, n) == BaseSet(d, p, Itv(Fin(n), Fin(n)))

\* apply(f, p, q, r): p := q f r
BaseApply(d, f, p, q, r) == BaseSet(d, p, IArith(f, BaseGet(d, q), BaseGet(d, r)))

BaseLeq(d1, d2) ==
  \/ d1.bot
  \/ /\ ~d2.bot
     /\ \A p \in DOMAIN d2.env : ILeq(BaseGet(d1, p), d2.env[p])

\* the bindings that are not top
BaseNorm(d) ==
  IF d.bot THEN BaseBot
  ELSE [bot |-> FALSE,
        env |-> [p \in {q \in DOMAIN d.env : ~IIsTop(d.env[q])} |-> d.env[p]]]

BaseJoin(d1, d2) ==
  IF d1.bot THEN d2
  ELSE IF d2.bot THEN d1
  ELSE BaseNorm([bot |-> FALSE,
                 env |-> [p \in DOMAIN d1.env \cap DOMAIN d2.env |->
                            IJoin(d1.env[p], d2.env[p])]])

BaseWiden(d1, d2) ==
  IF d1.bot THEN d2
  ELSE IF d2.bot THEN d1
  ELSE BaseNorm([bot |-> FALSE,
                 env |-> [p \in DOMAIN d1.env \cap DOMAIN d2.env |->
                            IWiden(d1.env[p], d2.env[p])]])

\* a linear constraint: p - q kind k, or p kind k when there is no q; kind is
\* "le", "eq" or "ne"; p and q are proxies, or program variables
NoProxy == 0 - 1

NoVar == "none"

BaseCst(kind, p, q, k) == [kind |-> kind, p |-> p, q |-> q, k |-> k]

\* 0 kind k
HoldsOfZero(kind, k) ==
  CASE kind = "le" -> 0 <= k
    [] kind = "eq" -> 0 = k
    [] kind = "ne" -> 0 # k

\* operator+=(cst), as the interval solver refines the variables of cst
BaseAddCst(d, c) ==
  IF d.bot THEN BaseBot
  ELSE IF c.q = NoProxy THEN
    BaseSet(d, c.p,
      CASE c.kind = "le" -> IMeet(BaseGet(d, c.p), Itv(NInf, Fin(c.k)))
        [] c.kind = "eq" -> IMeet(BaseGet(d, c.p), Itv(Fin(c.k), Fin(c.k)))
        [] c.kind = "ne" -> ITrim(BaseGet(d, c.p), c.k))
  ELSE IF c.p = c.q THEN
    (IF HoldsOfZero(c.kind, c.k) THEN d ELSE BaseBot)
  ELSE
    The({ BaseSet(BaseSet(d, c.p, np), c.q,
                  IF IIsBot(np) THEN IBot
                  ELSE CASE c.kind = "le" ->
                              IMeet(BaseGet(d, c.q),
                                    Itv(ISub(np, Itv(Fin(c.k), Fin(c.k))).lb, PInf))
                         [] c.kind = "eq" ->
                              IMeet(BaseGet(d, c.q), ISub(np, Itv(Fin(c.k), Fin(c.k))))
                         [] c.kind = "ne" ->
                              IF ISingleton(np)
                              THEN ITrim(BaseGet(d, c.q), np.lb[2] - c.k)
                              ELSE BaseGet(d, c.q)) :
          np \in { CASE c.kind = "le" ->
                          IMeet(BaseGet(d, c.p),
                                Itv(NInf, IAdd(BaseGet(d, c.q),
                                               Itv(Fin(c.k), Fin(c.k))).ub))
                     [] c.kind = "eq" ->
                          IMeet(BaseGet(d, c.p),
                                IAdd(BaseGet(d, c.q), Itv(Fin(c.k), Fin(c.k))))
                     [] c.kind = "ne" ->
                          IF ISingleton(BaseGet(d, c.q))
                          THEN ITrim(BaseGet(d, c.p), BaseGet(d, c.q).lb[2] + c.k)
                          ELSE BaseGet(d, c.p) } })

(***************************************************************************)
(* The term table: a sequence of terms, the term of TermId t being         *)
(* tbl[t + 1].  A term is a free variable, a constant or the application   *)
(* of an operation to two terms.                                           *)
(***************************************************************************)
VarTerm == [kind |-> "var", n |-> 0, f |-> "", l |-> 0, r |-> 0]

ConstTerm(n) == [kind |-> "const", n |-> n, f |-> "", l |-> 0, r |-> 0]

AppTerm(f, a, b) == [kind |-> "app", n |-> 0, f |-> f, l |-> a, r |-> b]

NoTerm == 0 - 1

EmptyTable_t == << >>

TermIds(tbl) == 0..(Len(tbl) - 1)

\* the value [tbl, t] of an operation that may add the term it returns
fresh_var(tbl) == [tbl |-> Append(tbl, VarTerm), t |-> Len(tbl)]

find_const(tbl, n) ==
  IF \E t \in TermIds(tbl) : tbl[t + 1] = ConstTerm(n)
  THEN CHOOSE t \in TermIds(tbl) : tbl[t + 1] = ConstTerm(n)
  ELSE NoTerm

make_const(tbl, n) ==
  IF find_const(tbl, n) # NoTerm THEN [tbl |-> tbl, t |-> find_const(tbl, n)]
  ELSE [tbl |-> Append(tbl, ConstTerm(n)), t |-> Len(tbl)]

find_ftor(tbl, f, a, b) ==
  IF \E t \in TermIds(tbl) : tbl[t + 1] = AppTerm(f, a, b)
  THEN CHOOSE t \in TermIds(tbl) : tbl[t + 1] = AppTerm(f, a, b)
  ELSE NoTerm

apply_ftor(tbl, f, a, b) ==
  IF find_ftor(tbl, f, a, b) # NoTerm THEN [tbl |-> tbl, t |-> find_ftor(tbl, f, a, b)]
  ELSE [tbl |-> Append(tbl, AppTerm(f, a, b)), t |-> Len(tbl)]

RECURSIVE depth(_, _)
depth(tbl, t) ==
  IF tbl[t + 1].kind = "app"
  THEN LET dl == depth(tbl, tbl[t + 1].l)
           dr == depth(tbl, tbl[t + 1].r)
       IN  1 + (IF dl >= dr THEN dl ELSE dr)
  ELSE 0

parents(tbl, t) ==
  { p \in TermIds(tbl) :
      tbl[p + 1].kind = "app" /\ (tbl[p + 1].l = t \/ tbl[p + 1].r = t) }

\* map_leq(other, t_x, t_y, gen_map) of the table sx: gen_map is a set of
\* pairs <<t_y, t_x>>; the value is [ok, map]
RECURSIVE map_leq(_, _, _, _, _)
map_leq(sx, sy, tx, ty, gen_map) ==
  IF \E e \in gen_map : e[1] = ty
  THEN [ok |-> <<ty, tx>> \in gen_map, map |-> gen_map]
  ELSE IF sy[ty + 1].kind = "var"
  THEN [ok |-> TRUE, map |-> gen_map \cup {<<ty, tx>>}]
  ELSE IF /\ sy[ty + 1].kind = "app"
          /\ sx[tx + 1].kind = "app"
          /\ sy[ty + 1].f = sx[tx + 1].f
  THEN The({ IF ~ml.ok THEN ml
             ELSE map_leq(sx, sy, sx[tx + 1].r, sy[ty + 1].r, ml.map) :
             ml \in {map_leq(sx, sy, sx[tx + 1].l, sy[ty + 1].l,
                             gen_map \cup {<<ty, tx>>})} })
  ELSE [ok |-> FALSE, map |-> gen_map]

\* generalize(other, t_x, t_y, out_tbl, gener_map) of the table sx: gener_map
\* is a set of triples <<t_x, t_y, t_z>>; the value is [tbl, map, t]
RECURSIVE generalize(_, _, _, _, _, _)
generalize(sx, sy, tx, ty, out_tbl, gener_map) ==
  IF \E e \in gener_map : e[1] = tx /\ e[2] = ty
  THEN [tbl |-> out_tbl, map |-> gener_map,
        t |-> (CHOOSE e \in gener_map : e[1] = tx /\ e[2] = ty)[3]]
  ELSE The({ [tbl |-> res.tbl, map |-> res.map \cup {<<tx, ty, res.t>>}, t |-> res.t] :
             res \in {
               IF /\ sx[tx + 1].kind = "const"
                  /\ sy[ty + 1].kind = "const"
                  /\ sx[tx + 1].n = sy[ty + 1].n
               THEN [tbl |-> make_const(out_tbl, sx[tx + 1].n).tbl, map |-> gener_map,
                     t |-> make_const(out_tbl, sx[tx + 1].n).t]
               ELSE IF /\ sx[tx + 1].kind = "app"
                       /\ sy[ty + 1].kind = "app"
                       /\ sx[tx + 1].f = sy[ty + 1].f
               THEN The({ The({ [tbl |-> apply_ftor(gr.tbl, sx[tx + 1].f, gl.t, gr.t).tbl,
                                 map |-> gr.map,
                                 t |-> apply_ftor(gr.tbl, sx[tx + 1].f, gl.t, gr.t).t] :
                                gr \in {generalize(sx, sy, sx[tx + 1].r, sy[ty + 1].r,
                                                   gl.tbl, gl.map)} }) :
                          gl \in {generalize(sx, sy, sx[tx + 1].l, sy[ty + 1].l,
                                             out_tbl, gener_map)} })
               ELSE [tbl |-> fresh_var(out_tbl).tbl, map |-> gener_map,
                     t |-> fresh_var(out_tbl).t] } })

(***************************************************************************)
(* anti_unif<Info>: the term-equivalence domain.  A value is the record of *)
(* its members; an operation that returns a value and changes the members  *)
(* is modelled by the record [st, v] of the members afterwards and the     *)
(* value returned.                                                         *)
(***************************************************************************)
MapPut(m, k, v) == [j \in DOMAIN m \cup {k} |-> IF j = k THEN v ELSE m[j]]

MapErase(m, k) == [j \in DOMAIN m \ {k} |-> m[j]]

\* anti_unif(bool is_top)
anti_unif(top) ==
  [_is_bottom |-> ~top, _ttbl |-> EmptyTable_t, _impl |-> BaseTop, _alloc |-> 0,
   _var_map |-> << >>, _term_map |-> << >>, changed_terms |-> {}]

\* anti_unif(alloc, vm, tbl, tmap, impl)
anti_unif_of(alloc, vm, tbl, tmap, impl) ==
  [_is_bottom |-> impl.bot, _ttbl |-> tbl, _impl |-> impl, _alloc |-> alloc,
   _var_map |-> vm, _term_map |-> tmap, changed_terms |-> {}]

au_top == anti_unif(TRUE)

au_bottom == anti_unif(FALSE)

au_is_bottom(s) == s._is_bottom

au_is_top(s) == DOMAIN s._var_map = {} /\ ~au_is_bottom(s)

is_normalized(s) == s.changed_terms = {}

check_terms(s) == \A v \in DOMAIN s._var_map : s._var_map[v] < Len(s._ttbl)

term_of_var(s, v) ==
  IF v \in DOMAIN s._var_map THEN [st |-> s, v |-> s._var_map[v]]
  ELSE [st |-> [s EXCEPT !._ttbl = fresh_var(@).tbl,
                         !._var_map = MapPut(@, v, Len(s._ttbl))],
        v |-> Len(s._ttbl)]

domvar_of_term(s, id) ==
  IF id \in DOMAIN s._term_map THEN [st |-> s, v |-> s._term_map[id]]
  ELSE [st |-> [s EXCEPT !._alloc = @ + 1, !._term_map = MapPut(@, id, s._alloc)],
        v |-> s._alloc]

domvar_of_var(s, v) ==
  The({ domvar_of_term(tv.st, tv.v) : tv \in {term_of_var(s, v)} })

\* domvar_of_term for each term of ts in turn: the members afterwards
RECURSIVE domvars_of_terms(_, _)
domvars_of_terms(s, ts) ==
  IF ts = << >> THEN s
  ELSE domvars_of_terms(domvar_of_term(s, Head(ts)).st, Tail(ts))

\* std::map::insert, which leaves the binding x already has
rebind_var_insert(s, x, tx) ==
  IF x \in DOMAIN s._var_map THEN s ELSE [s EXCEPT !._var_map = MapPut(@, x, tx)]

\* _var_map[x] = tx
rebind_var(s, x, tx) == [s EXCEPT !._var_map = MapPut(@, x, tx)]

build_const(s, n) ==
  IF find_const(s._ttbl, n) # NoTerm THEN [st |-> s, v |-> find_const(s._ttbl, n)]
  ELSE The({ [st |-> [dv.st EXCEPT !._impl = BaseAssignConst(@, dv.v, n)],
               v |-> Len(s._ttbl)] :
             dv \in {domvar_of_term([s EXCEPT !._ttbl = make_const(@, n).tbl],
                                    Len(s._ttbl))} })

\* build_term without the search of the table: the term is created anew
build_term_always(s, f, ty, tz) ==
  The({ [st |-> [sd EXCEPT !._impl =
                      BaseApply(@, f, sd._term_map[Len(s._ttbl)],
                                sd._term_map[ty], sd._term_map[tz])],
         v |-> Len(s._ttbl)] :
        sd \in {domvars_of_terms([s EXCEPT !._ttbl = Append(@, AppTerm(f, ty, tz))],
                                 <<Len(s._ttbl), ty, tz>>)} })

build_term(s, f, ty, tz) ==
  IF find_ftor(s._ttbl, f, ty, tz) # NoTerm
  THEN [st |-> s, v |-> find_ftor(s._ttbl, f, ty, tz)]
  ELSE The({ [st |-> [sd EXCEPT !._impl =
                              BaseApply(@, f, sd._term_map[Len(s._ttbl)],
                                        sd._term_map[ty], sd._term_map[tz])],
               v |-> Len(s._ttbl)] :
             sd \in {domvars_of_terms([s EXCEPT !._ttbl = apply_ftor(@, f, ty, tz).tbl],
                                      <<Len(s._ttbl), ty, tz>>)} })

\* a linear expression is [cst, terms], terms the sequence of its <<coefficient,
\* variable>> pairs.  The arguments of a call are evaluated left to right.
build_linterm(s, term) ==
  The({ The({ build_term(tv.st, "*", c.v, tv.v) :
              tv \in {term_of_var(c.st, term[2])} }) :
        c \in {build_const(s, term[1])} })

RECURSIVE build_linterms(_, _, _)
build_linterms(s, t, terms) ==
  IF terms = << >> THEN [st |-> s, v |-> t]
  ELSE The({ The({ build_linterms(ad.st, ad.v, Tail(terms)) :
                   ad \in {build_term(lt.st, "+", t, lt.v)} }) :
             lt \in {build_linterm(s, Head(terms))} })

build_linexpr(s, e) ==
  The({ build_linterms(t.st, t.v, e.terms) : t \in {build_const(s, e.cst)} })

LinCst(n) == [cst |-> n, terms |-> << >>]

LinVar(v) == [cst |-> 0, terms |-> << <<1, v>> >>]

LinVarPlus(v, n) == [cst |-> n, terms |-> << <<1, v>> >>]

\* assign(x, e)
au_assign(s, x, e) ==
  IF au_is_bottom(s) THEN s
  ELSE The({ rebind_var(tx.st, x, tx.v) : tx \in {build_linexpr(s, e)} })

\* expand(x, y)
au_expand(s, x, y) ==
  IF au_is_bottom(s) THEN s
  ELSE The({ rebind_var(tx.st, y, tx.v) : tx \in {build_linexpr(s, LinVar(x))} })

\* apply(op, x, y, z)
au_apply(s, f, x, y, z) ==
  IF au_is_bottom(s) THEN s
  ELSE The({ The({ The({ rebind_var(tx.st, x, tx.v) :
                         tx \in {build_term(tz.st, f, ty.v, tz.v)} }) :
                   tz \in {term_of_var(ty.st, z)} }) :
             ty \in {term_of_var(s, y)} })

\* apply(op, x, y, k)
au_apply_k(s, f, x, y, k) ==
  IF au_is_bottom(s) THEN s
  ELSE The({ The({ The({ rebind_var(tx.st, x, tx.v) :
                         tx \in {build_term(tk.st, f, ty.v, tk.v)} }) :
                   tk \in {build_const(ty.st, k)} }) :
             ty \in {term_of_var(s, y)} })

term_of_itv(s, intv) ==
  IF ISingleton(intv) THEN build_const(s, intv.lb[2])
  ELSE The({ [st |-> [dom_itv.st EXCEPT !._impl = BaseSet(@, dom_itv.v, intv)],
               v |-> Len(s._ttbl)] :
             dom_itv \in {domvar_of_term([s EXCEPT !._ttbl = fresh_var(@).tbl],
                                         Len(s._ttbl))} })

\* set(x, intv)
au_set(s, x, intv) ==
  The({ rebind_var(t.st, x, t.v) : t \in {term_of_itv(s, intv)} })

\* operator-=(v)
au_forget(s, v) ==
  IF v \in DOMAIN s._var_map
  THEN The({ [dom_v.st EXCEPT !._impl = BaseForget(@, dom_v.v),
                               !._term_map = MapErase(@, s._var_map[v])] :
             dom_v \in {domvar_of_term([s EXCEPT !._var_map = MapErase(@, v)],
                                       s._var_map[v])} })
  ELSE s

\* apply(bitwise_operation_t or div_operation_t, x, y, z): the base value of
\* the result is not computed by the model and is left unconstrained
au_apply_bitwise(s, x, y, z) ==
  The({ The({ rebind_var([dz.st EXCEPT !._impl = BaseForget(@, dvar_x.v)],
                          x, Len(s._ttbl)) :
              dz \in {domvar_of_var(domvar_of_var(dvar_x.st, y).st, z)} }) :
        dvar_x \in {domvar_of_term([s EXCEPT !._ttbl = fresh_var(@).tbl],
                                   Len(s._ttbl))} })

\* InverseOps::apply(dom, op, x, y, z): what x = y op z tells about y, then
\* about z
InverseFirst(f, ix, iz) ==
  CASE f = "+" -> ISub(ix, iz)
    [] f = "-" -> IAdd(ix, iz)
    [] f = "*" -> IDiv(ix, iz)

InverseSecond(f, ix, iy) ==
  CASE f = "+" -> ISub(ix, iy)
    [] f = "-" -> ISub(iy, ix)
    [] f = "*" -> IDiv(ix, iy)

BaseInverse(d, f, px, py, pz) ==
  IF d.bot THEN d
  ELSE The({ IF d1.bot THEN d1
             ELSE BaseSet(d1, pz,
                          IMeet(BaseGet(d1, pz),
                                InverseSecond(f, BaseGet(d1, px), BaseGet(d1, py)))) :
             d1 \in {BaseSet(d, py,
                             IMeet(BaseGet(d, py),
                                   InverseFirst(f, BaseGet(d, px), BaseGet(d, pz))))} })

\* eval_ftor(dom, tbl, t) and eval_ftor_down(dom, tbl, t): [st, v], v being dom
\* afterwards
eval_ftor(s, d, t) ==
  IF s._ttbl[t + 1].kind = "app"
  THEN The({ [st |-> sd,
              v |-> BaseApply(d, s._ttbl[t + 1].f, sd._term_map[t],
                              sd._term_map[s._ttbl[t + 1].l],
                              sd._term_map[s._ttbl[t + 1].r])] :
             sd \in {domvars_of_terms(s, <<t, s._ttbl[t + 1].l, s._ttbl[t + 1].r>>)} })
  ELSE [st |-> s, v |-> d]

\* eval_ftor_down that leaves the arguments of the term as they are
eval_ftor_down_skip(s, d, t) == [st |-> s, v |-> d]

eval_ftor_down(s, d, t) ==
  IF s._ttbl[t + 1].kind = "app"
  THEN The({ [st |-> sd,
              v |-> BaseInverse(d, s._ttbl[t + 1].f, sd._term_map[t],
                                sd._term_map[s._ttbl[t + 1].l],
                                sd._term_map[s._ttbl[t + 1].r])] :
             sd \in {domvars_of_terms(s, <<t, s._ttbl[t + 1].l, s._ttbl[t + 1].r>>)} })
  ELSE [st |-> s, v |-> d]

\* the elements of a set of numbers in increasing order
RECURSIVE Ascending(_)
Ascending(S) ==
  IF S = {} THEN << >>
  ELSE The({ <<least>> \o Ascending(S \ {least}) :
             least \in {CHOOSE a \in S : \A b \in S : a <= b} })

RECURSIVE MaxDepth(_, _)
MaxDepth(tbl, t) ==
  IF t >= Len(tbl) THEN 0
  ELSE The({ IF depth(tbl, t) >= rest THEN depth(tbl, t) ELSE rest :
             rest \in {MaxDepth(tbl, t + 1)} })

\* queue_push(queue, t): a queue holds one sequence of terms per depth
queue_push(tbl, queue, t) == [queue EXCEPT ![depth(tbl, t)] = Append(@, t)]

RECURSIVE queue_push_all(_, _, _)
queue_push_all(tbl, queue, ts) ==
  IF ts = << >> THEN queue
  ELSE queue_push_all(tbl, queue_push(tbl, queue, Head(ts)), Tail(ts))

EmptyQueue(tbl) == [d \in 0..MaxDepth(tbl, 0) |-> << >>]

\* the state of a run of normalize is ns: the members s, the copy d_prime, the
\* queue of the pass in progress and the set up_terms

\* the children of t that are not yet in changed_terms
NewArgs(s, t) ==
  SelectSeq(IF s._ttbl[t + 1].l = s._ttbl[t + 1].r THEN <<s._ttbl[t + 1].l>>
            ELSE <<s._ttbl[t + 1].l, s._ttbl[t + 1].r>>,
            LAMBDA c : c \notin s.changed_terms)

\* one term of the downward pass
NormalizeDown(ns, t) ==
  The({ IF ~BaseLeq(ev.st._impl, ev.v)
        THEN [ns EXCEPT !.s = [ev.st EXCEPT
                                 !._impl = ev.v,
                                 !.changed_terms =
                                    @ \cup {ns.s._ttbl[t + 1].l, ns.s._ttbl[t + 1].r}],
                        !.d_prime = ev.v,
                        !.queue = queue_push_all(ns.s._ttbl, @, NewArgs(ns.s, t))]
        ELSE [ns EXCEPT !.s = ev.st, !.d_prime = ev.v] :
        ev \in {eval_ftor_down(ns.s, ns.d_prime, t)} })

RECURSIVE NormalizeDownLevel(_, _, _)
NormalizeDownLevel(ns, d, i) ==
  IF i > Len(ns.queue[d]) THEN ns
  ELSE NormalizeDownLevel(NormalizeDown(ns, ns.queue[d][i]), d, i + 1)

RECURSIVE NormalizeDownFrom(_, _)
NormalizeDownFrom(ns, d) ==
  IF d < 1 THEN ns
  ELSE NormalizeDownFrom(NormalizeDownLevel(ns, d, 1), d - 1)

\* the parents of the terms ts that are not yet in up_terms, queued
RECURSIVE PushParents(_, _)
PushParents(ns, ts) ==
  IF ts = << >> THEN ns
  ELSE PushParents(
         [ns EXCEPT !.up_terms = @ \cup parents(ns.s._ttbl, Head(ts)),
                    !.queue = queue_push_all(
                                ns.s._ttbl, @,
                                Ascending(parents(ns.s._ttbl, Head(ts)) \ ns.up_terms))],
         Tail(ts))

\* one term of the upward pass
NormalizeUp(ns, t) ==
  The({ IF ~BaseLeq(ev.st._impl, ev.v)
        THEN PushParents([ns EXCEPT !.s = [ev.st EXCEPT !._impl = ev.v],
                                    !.d_prime = ev.v], <<t>>)
        ELSE [ns EXCEPT !.s = ev.st, !.d_prime = ev.v] :
        ev \in {eval_ftor(ns.s, ns.d_prime, t)} })

RECURSIVE NormalizeUpLevel(_, _, _)
NormalizeUpLevel(ns, d, i) ==
  IF i > Len(ns.queue[d]) THEN ns
  ELSE NormalizeUpLevel(NormalizeUp(ns, ns.queue[d][i]), d, i + 1)

RECURSIVE NormalizeUpFrom(_, _)
NormalizeUpFrom(ns, d) ==
  IF d > MaxDepth(ns.s._ttbl, 0) THEN ns
  ELSE NormalizeUpFrom(NormalizeUpLevel(ns, d, 1), d + 1)

\* normalize(), up to the end of the downward pass
NormalizeDownward(s) ==
  NormalizeDownFrom(
    [s |-> s, d_prime |-> s._impl, up_terms |-> {},
     queue |-> queue_push_all(s._ttbl, EmptyQueue(s._ttbl), Ascending(s.changed_terms))],
    MaxDepth(s._ttbl, 0))

\* and from there to the end of the upward pass
NormalizeUpward(ns) ==
  NormalizeUpFrom(
    PushParents([ns EXCEPT !.queue = EmptyQueue(ns.s._ttbl)],
                Ascending(ns.s.changed_terms)),
    1)

\* normalize that leaves the flag _is_bottom as it is
normalize_unflagged(s) ==
  The({ [up.s EXCEPT !.changed_terms = {}] :
        up \in {NormalizeUpward(NormalizeDownward(s))} })

\* normalize that leaves changed_terms as it is
normalize_keeping(s) ==
  The({ [up.s EXCEPT !._is_bottom = @ \/ up.s._impl.bot] :
        up \in {NormalizeUpward(NormalizeDownward(s))} })

\* normalize()
normalize(s) ==
  The({ [up.s EXCEPT !.changed_terms = {}, !._is_bottom = @ \/ up.s._impl.bot] :
        up \in {NormalizeUpward(NormalizeDownward(s))} })

\* the linear constraint cst over the proxy variables: [st, v]
rename_linear_cst(s, cst) ==
  IF cst.q = NoVar
  THEN The({ [st |-> dp.st, v |-> BaseCst(cst.kind, dp.v, NoProxy, cst.k)] :
             dp \in {domvar_of_var(s, cst.p)} })
  ELSE The({ The({ [st |-> dq.st, v |-> BaseCst(cst.kind, dp.v, dq.v, cst.k)] :
                   dq \in {domvar_of_var(dp.st, cst.q)} }) :
             dp \in {domvar_of_var(s, cst.p)} })

\* operator+=(cst)
au_add_constraint(s, cst) ==
  The({ normalize([cst_rn.st EXCEPT
                     !._impl = BaseAddCst(@, cst_rn.v),
                     !.changed_terms =
                        @ \cup {cst_rn.st._var_map[cst.p]}
                          \cup (IF cst.q = NoVar THEN {}
                                ELSE {cst_rn.st._var_map[cst.q]})]) :
        cst_rn \in {rename_linear_cst(s, cst)} })

\* operator[](x): [st, v]
au_index(s, x) ==
  The({ IF au_is_bottom(s1) THEN [st |-> s1, v |-> IBot]
        ELSE IF x \notin DOMAIN s1._var_map THEN [st |-> s1, v |-> ITop]
        ELSE The({ [st |-> dom_x.st, v |-> BaseGet(dom_x.st._impl, dom_x.v)] :
                   dom_x \in {domvar_of_term(s1, s1._var_map[x])} }) :
        s1 \in {normalize(s)} })

\* the program variables, in the order of the variable factory
ProgramVariables == <<"x", "y", "w", "z">>

VarsOf(s) == SelectSeq(ProgramVariables, LAMBDA v : v \in DOMAIN s._var_map)

\* an allocator is the next name it gives; the names of one allocator are
\* those of one block of ColourStride numbers, the colour of the allocator
ColourStride == 100

ColourOf(alloc) == alloc \div ColourStride

\* dom_var_alloc_t(_alloc, o._alloc): an allocator of a colour that is neither
\* that of _alloc nor that of o._alloc, so that its names are used by neither
palloc(alloc1, alloc2) ==
  ColourStride * (IF 0 \notin {ColourOf(alloc1), ColourOf(alloc2)} THEN 0
                  ELSE IF 1 \notin {ColourOf(alloc1), ColourOf(alloc2)} THEN 1
                  ELSE 2)

\* a set of tuples of numbers as the sequence a std::map iterates over
TupleLess(a, b) ==
  \E i \in 1..Len(a) : a[i] < b[i] /\ \A j \in 1..(i - 1) : a[j] = b[j]

RECURSIVE InKeyOrder(_)
InKeyOrder(S) ==
  IF S = {} THEN << >>
  ELSE The({ <<least>> \o InKeyOrder(S \ {least}) :
             least \in {CHOOSE a \in S : \A b \in S \ {a} : TupleLess(a, b)} })

\* the value d without the bindings of the proxies of the sequence ps
ForgetAll(d, ps) ==
  IF d.bot THEN d
  ELSE [bot |-> FALSE,
        env |-> [p \in DOMAIN d.env \ {ps[i] : i \in 1..Len(ps)} |-> d.env[p]]]

\* the loop over gen_map or gener_map, and the two loops that forget: pairs is
\* the sequence of the <<t_x, t_y>>; the value is the members of both sides,
\* x_impl, y_impl, the allocator and the sequence vts of the proxies given
RECURSIVE RenameCommon(_, _)
RenameCommon(rn, pairs) ==
  IF pairs = << >>
  THEN [rn EXCEPT !.x_impl = ForgetAll(@, rn.xvars),
                  !.y_impl = ForgetAll(@, rn.yvars)]
  ELSE The({ RenameCommon(
               [sx |-> vx.st, sy |-> vy.st, palloc |-> rn.palloc + 1,
                x_impl |-> BaseAssignVar(rn.x_impl, rn.palloc, vx.v),
                y_impl |-> BaseAssignVar(rn.y_impl, rn.palloc, vy.v),
                xvars |-> Append(rn.xvars, vx.v),
                yvars |-> Append(rn.yvars, vy.v),
                vts |-> Append(rn.vts, rn.palloc)],
               Tail(pairs)) :
             vx \in {domvar_of_term(rn.sx, Head(pairs)[1])},
             vy \in {domvar_of_term(rn.sy, Head(pairs)[2])} })

StartRename(sx, sy) ==
  [sx |-> sx, sy |-> sy, palloc |-> palloc(sx._alloc, sy._alloc),
   x_impl |-> sx._impl, y_impl |-> sy._impl,
   xvars |-> << >>, yvars |-> << >>, vts |-> << >>]

\* the loop of operator<= over _var_map: [ok, sy, map]
RECURSIVE LeqVars(_, _, _, _)
LeqVars(sx, sy, vs, gen_map) ==
  IF vs = << >> THEN [ok |-> TRUE, sy |-> sy, map |-> gen_map]
  ELSE The({ The({ IF ~ml.ok THEN [ok |-> FALSE, sy |-> ty.st, map |-> ml.map]
                   ELSE LeqVars(sx, ty.st, Tail(vs), ml.map) :
                   ml \in {map_leq(sx._ttbl, ty.st._ttbl, sx._var_map[Head(vs)],
                                   ty.v, gen_map)} }) :
             ty \in {term_of_var(sy, Head(vs))} })

\* the pairs <<t_x, t_y>> of gen_map, in the order of its keys t_y
GenMapPairs(gen_map) ==
  The({ [i \in 1..Len(gm) |-> <<gm[i][2], gm[i][1]>>] : gm \in {InKeyOrder(gen_map)} })

\* operator<=(o): [st, v]
au_leq(s, o) ==
  The({ IF au_is_bottom(s1) THEN [st |-> s1, v |-> TRUE]
        ELSE IF au_is_bottom(o) THEN [st |-> s1, v |-> FALSE]
        ELSE The({ IF ~lv.ok THEN [st |-> s1, v |-> FALSE]
                   ELSE The({ [st |-> rn.sx, v |-> BaseLeq(rn.x_impl, rn.y_impl)] :
                              rn \in {RenameCommon(StartRename(s1, lv.sy),
                                                   GenMapPairs(lv.map))} }) :
                   lv \in {LeqVars(s1, o, VarsOf(s1), {})} }) :
        s1 \in {normalize(s)} })

\* the loop of operator| and operator|| over _var_map
RECURSIVE GeneralizeVars(_, _, _, _)
GeneralizeVars(sx, sy, vs, acc) ==
  IF vs = << >> THEN [acc EXCEPT !.sy = sy]
  ELSE The({ The({ GeneralizeVars(
                     sx, ty.st, Tail(vs),
                     [sy |-> ty.st, out_tbl |-> tz.tbl, gener_map |-> tz.map,
                      out_vmap |-> MapPut(acc.out_vmap, Head(vs), tz.t)]) :
                   tz \in {generalize(sx._ttbl, ty.st._ttbl, sx._var_map[Head(vs)],
                                      ty.v, acc.out_tbl, acc.gener_map)} }) :
             ty \in {term_of_var(sy, Head(vs))} })

\* the value built from x_impl op y_impl of operator| and operator||: gv is
\* what the first loop leaves, gm is gener_map in the order of its keys, rn
\* is what the second loop and the loops that forget leave
Generalized(widening, gv, gm, rn) ==
  anti_unif_of(rn.palloc, gv.out_vmap, gv.out_tbl,
               [tz \in {gm[i][3] : i \in 1..Len(gm)} |->
                  rn.vts[CHOOSE i \in 1..Len(gm) : gm[i][3] = tz]],
               IF widening THEN BaseWiden(rn.x_impl, rn.y_impl)
               ELSE BaseJoin(rn.x_impl, rn.y_impl))

\* the last branch of operator| (not widening) and of operator|| (widening), s
\* and o being normalized as the operation asks: [st, v]
Generalization(widening, s, o) ==
  The({ The({ The({ [st |-> rn.sx, v |-> Generalized(widening, gv, gm, rn)] :
                    rn \in {RenameCommon(StartRename(s, gv.sy),
                                         [i \in 1..Len(gm) |-> <<gm[i][1], gm[i][2]>>])} }) :
              gm \in {InKeyOrder(gv.gener_map)} }) :
        gv \in {GeneralizeVars(s, o, VarsOf(s),
                               [sy |-> o, out_tbl |-> EmptyTable_t, gener_map |-> {},
                                out_vmap |-> << >>])} })

\* operator| with the base values widened
au_join_widening(s, o) ==
  The({ IF au_is_bottom(s1) \/ au_is_top(o1) THEN [st |-> s1, v |-> o1]
        ELSE IF au_is_bottom(o1) \/ au_is_top(s1) THEN [st |-> s1, v |-> s1]
        ELSE Generalization(TRUE, s1, o1) :
        s1 \in {normalize(s)}, o1 \in {normalize(o)} })

\* operator|(o): [st, v]
au_join(s, o) ==
  The({ IF au_is_bottom(s1) \/ au_is_top(o1) THEN [st |-> s1, v |-> o1]
        ELSE IF au_is_bottom(o1) \/ au_is_top(s1) THEN [st |-> s1, v |-> s1]
        ELSE Generalization(FALSE, s1, o1) :
        s1 \in {normalize(s)}, o1 \in {normalize(o)} })

\* operator|| normalizing its left operand as operator| does
au_widen_normalizing(s, o) ==
  The({ IF au_is_bottom(s1) THEN [st |-> s1, v |-> o1]
        ELSE IF au_is_bottom(o1) THEN [st |-> s1, v |-> s1]
        ELSE Generalization(TRUE, s1, o1) :
        s1 \in {normalize(s)}, o1 \in {normalize(o)} })

\* operator||(o): [st, v]
au_widen(s, o) ==
  The({ IF au_is_bottom(s) THEN [st |-> s, v |-> o1]
        ELSE IF au_is_bottom(o1) THEN [st |-> s, v |-> s]
        ELSE Generalization(TRUE, s, o1) :
        o1 \in {normalize(o)} })

\* operator&(o)
au_meet(s, o) ==
  IF au_is_bottom(s) \/ au_is_bottom(o) THEN au_bottom
  ELSE IF au_is_top(s) THEN o
  ELSE IF au_is_top(o) THEN s
  ELSE o

\* operator&&(o)
au_narrow(s, o) ==
  IF au_is_bottom(s) \/ au_is_bottom(o) THEN au_bottom
  ELSE IF au_is_top(s) THEN o
  ELSE s

\* to_linear_constraint_system(): [st, v], v being [csts, equivs]: csts the
\* interval of each variable the constraints of d_vis are renamed to, or
\* is_false if d_vis is bottom; equivs the pairs <<a, b>> of the a - b == 0
RECURSIVE CollectVisible(_, _, _, _)
CollectVisible(s, vs, rev_map, equivs) ==
  IF vs = << >> THEN [st |-> s, rev_map |-> rev_map, equivs |-> equivs]
  ELSE The({ IF dv.v \in DOMAIN rev_map
             THEN CollectVisible(dv.st, Tail(vs), rev_map,
                                 Append(equivs, <<rev_map[dv.v], Head(vs)>>))
             ELSE CollectVisible(dv.st, Tail(vs), MapPut(rev_map, dv.v, Head(vs)),
                                 equivs) :
             dv \in {domvar_of_term(s, s._var_map[Head(vs)])} })

au_to_linear_constraint_system(s) ==
  The({ [st |-> cv.st,
         v |-> [is_false |-> cv.st._impl.bot,
                csts |-> IF cv.st._impl.bot THEN << >>
                         ELSE [v \in {cv.rev_map[p] :
                                        p \in DOMAIN cv.rev_map
                                               \cap DOMAIN cv.st._impl.env} |->
                                 cv.st._impl.env[CHOOSE p \in DOMAIN cv.rev_map :
                                                   cv.rev_map[p] = v]],
                equivs |-> cv.equivs]] :
        cv \in {CollectVisible(s, VarsOf(s), << >>, << >>)} })

(***************************************************************************)
(* The calls made on one term-domain value.  A call is the record of its   *)
(* name and arguments: x, y, z are program variables ("" if unused), k is  *)
(* a number, or the place of the argument in the sequence it is drawn from.*)
(***************************************************************************)
MaxOps == 2

Op(name, x, y, z, k) == [name |-> name, x |-> x, y |-> y, z |-> z, k |-> k]

Exprs ==
  << LinCst(1), LinCst(5), LinVar("z"), LinVarPlus("x", 2),
     [cst |-> 0, terms |-> << <<1, "x">>, <<1, "y">> >>], LinVarPlus("y", 1) >>

Intervals == << Itv(Fin(0), Fin(10)), Itv(Fin(5), Fin(20)), Itv(Fin(0), Fin(0)),
                Itv(Fin(1), Fin(1)), IBot >>

LinCsts ==
  << BaseCst("le", "z", NoVar, 5), BaseCst("eq", "x", NoVar, 0),
     BaseCst("eq", "x", NoVar, 1), BaseCst("eq", "x", "y", 0),
     BaseCst("ne", "x", "y", 0) >>

\* what a call that is not a lattice operation leaves of the value s
Exec(s, c) ==
  CASE c.name = "assign"     -> au_assign(s, c.x, Exprs[c.k])
    [] c.name = "apply"      -> au_apply(s, "+", c.x, c.y, c.z)
    [] c.name = "apply_k"    -> au_apply_k(s, "+", c.x, c.y, c.k)
    [] c.name = "apply_bitwise" -> au_apply_bitwise(s, c.x, c.y, c.z)
    [] c.name = "set"        -> au_set(s, c.x, Intervals[c.k])
    [] c.name = "expand"     -> au_expand(s, c.x, c.y)
    [] c.name = "operator-=" -> au_forget(s, c.x)
    [] c.name = "operator+=" -> au_add_constraint(s, LinCsts[c.k])
    [] c.name = "normalize"  -> normalize(s)
    [] c.name = "operator[]" -> au_index(s, c.x).st
    [] c.name = "to_linear_constraint_system" ->
         au_to_linear_constraint_system(s).st

RECURSIVE RunCalls(_, _)
RunCalls(s, cs) == IF cs = << >> THEN s ELSE RunCalls(Exec(s, Head(cs)), Tail(cs))

\* the programs of the tests and of the examples of the documentation
Programs ==
  { \* x in [0,10], y in [0,10], z := x + y
    << Op("set", "x", "", "", 1), Op("set", "y", "", "", 1),
       Op("apply", "z", "x", "y", 0) >>,
    << Op("set", "x", "", "", 1), Op("set", "y", "", "", 1),
       Op("assign", "z", "", "", 5) >>,
    \* x := 1; y := x + 2 and x := 5; y := x + 2
    << Op("assign", "x", "", "", 1), Op("assign", "y", "", "", 4) >>,
    << Op("assign", "x", "", "", 2), Op("assign", "y", "", "", 4) >>,
    \* terms-4.cc, block 3, with w and z for v0 and v1
    << Op("set", "w", "", "", 3), Op("set", "z", "", "", 4),
       Op("apply", "x", "z", "w", 0), Op("apply", "y", "w", "z", 0) >>,
    \* x in [5,20]
    << Op("set", "x", "", "", 2) >> }

Prefixes(cs) == { SubSeq(cs, 1, n) : n \in 0..Len(cs) }

StartStates ==
  {au_bottom} \cup { RunCalls(au_top, cs) : cs \in UNION { Prefixes(p) : p \in Programs } }

\* the programs that build the values passed as the other operand of a
\* lattice operation, bottom() being one more
OperandPrograms ==
  << << >>,
     << Op("set", "x", "", "", 1) >>,
     << Op("set", "x", "", "", 2) >>,
     << Op("assign", "x", "", "", 1) >>,
     << Op("assign", "x", "", "", 2), Op("assign", "y", "", "", 4) >> >>

TOperands ==
  [i \in 1..(Len(OperandPrograms) + 1) |->
     IF i > Len(OperandPrograms) THEN au_bottom
     ELSE RunCalls(au_top, OperandPrograms[i])]

This ==
  [_is_bottom |-> _is_bottom, _ttbl |-> _ttbl, _impl |-> _impl, _alloc |-> _alloc,
   _var_map |-> _var_map, _term_map |-> _term_map, changed_terms |-> changed_terms]

\* the operand of place k, the value itself being the operand of place 0
Operand(k) == IF k = 0 THEN This ELSE t_values[k]

InitTerms ==
  /\ _cfg = SimpleLoop
  /\ _wto = _cfg.wto
  /\ _pre = EmptyTable
  /\ _post = EmptyTable
  /\ _widening_threshold = 0
  /\ _narrowing_iterations = 0
  /\ _use_widening_jump_set = FALSE
  /\ _jump_set = {}
  /\ init = ITop
  /\ pc = "terms"
  /\ stack = <<>>
  /\ todo = <<>>
  /\ rep_pre = EmptyTable
  /\ rep_post = EmptyTable
  /\ NoPowerset
  /\ \E s \in StartStates :
       /\ _is_bottom = s._is_bottom
       /\ _ttbl = s._ttbl
       /\ _impl = s._impl
       /\ _alloc = s._alloc
       /\ _var_map = s._var_map
       /\ _term_map = s._term_map
       /\ changed_terms = s.changed_terms
  /\ t_values = TOperands
  /\ t_call = Op("anti_unif", "", "", "", 0)
  /\ t_other = << >>
  /\ t_ret = << >>
  /\ t_nops = 0
  /\ t_before = << >>
  /\ t_prev = Op("anti_unif", "", "", "", 0)

\* one call c: the members it leaves, its operand if any, what it returns
TCall(c, s, arg, r) ==
  /\ pc = "terms"
  /\ t_nops < MaxOps
  /\ _is_bottom' = s._is_bottom
  /\ _ttbl' = s._ttbl
  /\ _impl' = s._impl
  /\ _alloc' = s._alloc
  /\ _var_map' = s._var_map
  /\ _term_map' = s._term_map
  /\ changed_terms' = s.changed_terms
  /\ t_call' = c
  /\ t_other' = arg
  /\ t_ret' = r
  /\ t_nops' = t_nops + 1
  /\ t_before' = <<This>>
  /\ t_prev' = t_call
  /\ UNCHANGED <<ivars, pvars, t_values>>

TAssign ==
  \E x \in {"x", "y", "w"}, k \in 1..Len(Exprs) :
    TCall(Op("assign", x, "", "", k), au_assign(This, x, Exprs[k]), << >>, << >>)

TApply ==
  \E a \in { <<"z", "x", "y">>, <<"x", "z", "w">>, <<"y", "w", "z">> } :
    TCall(Op("apply", a[1], a[2], a[3], 0), au_apply(This, "+", a[1], a[2], a[3]),
          << >>, << >>)

TApplyK ==
  TCall(Op("apply_k", "y", "x", "", 2), au_apply_k(This, "+", "y", "x", 2),
        << >>, << >>)

TApplyBitwise ==
  TCall(Op("apply_bitwise", "x", "y", "z", 0), au_apply_bitwise(This, "x", "y", "z"),
        << >>, << >>)

TSet ==
  \E x \in {"x", "y"}, k \in 1..Len(Intervals) :
    TCall(Op("set", x, "", "", k), au_set(This, x, Intervals[k]), << >>, << >>)

TExpand ==
  TCall(Op("expand", "x", "w", "", 0), au_expand(This, "x", "w"), << >>, << >>)

TForget ==
  \E x \in {"x", "y"} :
    TCall(Op("operator-=", x, "", "", 0), au_forget(This, x), << >>, << >>)

TAddConstraint ==
  \E k \in 1..Len(LinCsts) :
    TCall(Op("operator+=", "", "", "", k), au_add_constraint(This, LinCsts[k]),
          << >>, << >>)

TNormalize == TCall(Op("normalize", "", "", "", 0), normalize(This), << >>, << >>)

TIndex ==
  \E x \in {"x", "y", "z"} :
    \E res \in {au_index(This, x)} :
      TCall(Op("operator[]", x, "", "", 0), res.st, << >>, <<res.v>>)

TToLinearConstraintSystem ==
  \E res \in {au_to_linear_constraint_system(This)} :
    TCall(Op("to_linear_constraint_system", "", "", "", 0), res.st, << >>, <<res.v>>)

TLeq ==
  \E k \in 0..Len(t_values) :
    \E res \in {au_leq(This, Operand(k))} :
      TCall(Op("operator<=", "", "", "", k), res.st, <<Operand(k)>>, <<res.v>>)

\* the operations that return a value are modelled as a = a op o
TJoin ==
  \E k \in 0..Len(t_values) :
    TCall(Op("operator|", "", "", "", k), au_join(This, Operand(k)).v,
          <<Operand(k)>>, << >>)

TWiden ==
  \E k \in 0..Len(t_values) :
    TCall(Op("operator||", "", "", "", k), au_widen(This, Operand(k)).v,
          <<Operand(k)>>, << >>)

TMeet ==
  \E k \in 0..Len(t_values) :
    TCall(Op("operator&", "", "", "", k), au_meet(This, Operand(k)),
          <<Operand(k)>>, << >>)

TNarrow ==
  \E k \in 0..Len(t_values) :
    TCall(Op("operator&&", "", "", "", k), au_narrow(This, Operand(k)),
          <<Operand(k)>>, << >>)

NextTerms ==
  \/ TAssign
  \/ TApply
  \/ TApplyK
  \/ TApplyBitwise
  \/ TSet
  \/ TExpand
  \/ TForget
  \/ TAddConstraint
  \/ TNormalize
  \/ TIndex
  \/ TToLinearConstraintSystem
  \/ TLeq
  \/ TJoin
  \/ TWiden
  \/ TMeet
  \/ TNarrow

SpecTerms == InitTerms /\ [][NextTerms]_vars

(***************************************************************************)
(* Properties of the term domain.                                          *)
(***************************************************************************)
\* the linear expression e has a term in the variable v
Mentions(e, v) == \E i \in 1..Len(e.terms) : e.terms[i][2] = v

\* what to_linear_constraint_system returns for the value
Reported == au_to_linear_constraint_system(This).v

\* C11: after assign(x, e); assign(y, e) on a value that is not bottom, with
\* e a linear expression that does not mention x, x and y are bound to the
\* same term and the linear constraint system has the equality x - y = 0
C11_SharedTerm ==
  (/\ t_prev.name = "assign" /\ t_prev.x = "x"
   /\ t_call.name = "assign" /\ t_call.x = "y" /\ t_call.k = t_prev.k
   /\ ~Mentions(Exprs[t_call.k], "x")
   /\ ~_is_bottom)
  => /\ {"x", "y"} \subseteq DOMAIN _var_map
     /\ _var_map["x"] = _var_map["y"]
     /\ \E i \in 1..Len(Reported.equivs) : Reported.equivs[i] = <<"x", "y">>

\* both assignments made, of an expression in another variable, on a value
\* that bound y to another term before
C11_Witness ==
  /\ t_prev.name = "assign" /\ t_prev.x = "x"
  /\ t_call.name = "assign" /\ t_call.x = "y" /\ t_call.k = t_prev.k
  /\ Mentions(Exprs[t_call.k], "z")
  /\ ~_is_bottom
  /\ "y" \in DOMAIN t_before[1]._var_map
  /\ t_before[1]._var_map["y"] # _var_map["y"]
  /\ _var_map["x"] = _var_map["y"]
  /\ \E i \in 1..Len(Reported.equivs) : Reported.equivs[i] = <<"x", "y">>

\* the term of TermId t in the term table of the value
TermOf(t) == _ttbl[t + 1]

\* the value is the join of x := 1; y := x + 2 with x := 5; y := x + 2
JoinOfBranches ==
  /\ t_call.name = "operator|"
  /\ t_before = <<RunCalls(au_top, <<Op("assign", "x", "", "", 1),
                                     Op("assign", "y", "", "", 4)>>)>>
  /\ t_other = <<RunCalls(au_top, <<Op("assign", "x", "", "", 2),
                                    Op("assign", "y", "", "", 4)>>)>>

\* y is bound to the term +(2, *(1, t)), t being the term x is bound to and
\* a free variable
BoundToXPlus2 ==
  /\ {"x", "y"} \subseteq DOMAIN _var_map
  /\ TermOf(_var_map["x"]) = VarTerm
  /\ TermOf(_var_map["y"]).kind = "app"
  /\ TermOf(_var_map["y"]).f = "+"
  /\ TermOf(TermOf(_var_map["y"]).l) = ConstTerm(2)
  /\ TermOf(TermOf(_var_map["y"]).r).kind = "app"
  /\ TermOf(TermOf(_var_map["y"]).r).f = "*"
  /\ TermOf(TermOf(TermOf(_var_map["y"]).r).l) = ConstTerm(1)
  /\ TermOf(TermOf(_var_map["y"]).r).r = _var_map["x"]

\* every valuation of a and b the constraint system lcs admits has a - b = k
ReportsDifference(lcs, a, b, k) ==
  \/ lcs.is_false
  \/ /\ {a, b} \subseteq DOMAIN lcs.csts
     /\ \A i \in {a, b} : IsFin(lcs.csts[i].lb) /\ IsFin(lcs.csts[i].ub)
     /\ \A va \in lcs.csts[a].lb[2]..lcs.csts[a].ub[2] :
          \A vb \in lcs.csts[b].lb[2]..lcs.csts[b].ub[2] : va - vb = k

\* C12: the join of x := 1; y := x + 2 with x := 5; y := x + 2 over intervals
\* binds y to the addition term built over the generalised term x is bound
\* to, and its linear constraint system has the bounds 1 <= x <= 5 and
\* 3 <= y <= 7 and no constraint that relates x and y
C12_JoinKeepsTerm ==
  JoinOfBranches =>
    /\ ~_is_bottom
    /\ BoundToXPlus2
    /\ DOMAIN Reported.csts = {"x", "y"}
    /\ Reported.csts["x"] = Itv(Fin(1), Fin(5))
    /\ Reported.csts["y"] = Itv(Fin(3), Fin(7))
    /\ Reported.equivs = << >>

C12_Witness == JoinOfBranches /\ BoundToXPlus2 /\ Reported.equivs = << >>

\* C12 as stated: that join binds y to the addition term over the term of x
\* and reports y - x = 2
C12_JoinReportsDifference ==
  JoinOfBranches => BoundToXPlus2 /\ ReportsDifference(Reported, "y", "x", 2)

\* the value before the last call is the one set(x, [0,10]); set(y, [0,10]);
\* z := x + y leaves, z := x + y being apply(OP_ADDITION, z, x, y) or the
\* assignment of the linear expression x + y
SumOfTwo ==
  \/ t_before = <<RunCalls(au_top, <<Op("set", "x", "", "", 1),
                                     Op("set", "y", "", "", 1),
                                     Op("apply", "z", "x", "y", 0)>>)>>
  \/ t_before = <<RunCalls(au_top, <<Op("set", "x", "", "", 1),
                                     Op("set", "y", "", "", 1),
                                     Op("assign", "z", "", "", 5)>>)>>

\* the last call added the constraint z <= 5
AddedUpperBound ==
  t_call.name = "operator+=" /\ LinCsts[t_call.k] = BaseCst("le", "z", NoVar, 5)

\* C13: after set(x, [0,10]); set(y, [0,10]); z := x + y, adding z <= 5 makes
\* operator[](x) and operator[](y) return [0,5]
C13_DownwardPropagation ==
  (SumOfTwo /\ AddedUpperBound) =>
    /\ au_index(This, "x").v = Itv(Fin(0), Fin(5))
    /\ au_index(This, "y").v = Itv(Fin(0), Fin(5))

\* the constraint added to the value with z the application of + to x and y
C13_Witness ==
  /\ SumOfTwo
  /\ AddedUpperBound
  /\ TermOf(_var_map["z"]) = AppTerm("+", _var_map["x"], _var_map["y"])
  /\ au_index(t_before[1], "x").v = Itv(Fin(0), Fin(10))
  /\ au_index(This, "x").v = Itv(Fin(0), Fin(5))
  /\ changed_terms = {}

\* the last two calls added constraints that contradict each other: x = 0
\* then x = 1, or x = y then x != y with x and y both 1
Contradictory ==
  /\ t_prev.name = "operator+="
  /\ t_call.name = "operator+="
  /\ \/ /\ LinCsts[t_prev.k] = BaseCst("eq", "x", NoVar, 0)
        /\ LinCsts[t_call.k] = BaseCst("eq", "x", NoVar, 1)
     \/ /\ LinCsts[t_prev.k] = BaseCst("eq", "x", "y", 0)
        /\ LinCsts[t_call.k] = BaseCst("ne", "x", "y", 0)
        /\ au_index(t_before[1], "x").v = Itv(Fin(1), Fin(1))
        /\ au_index(t_before[1], "y").v = Itv(Fin(1), Fin(1))

\* C14: after operator+= the flag _is_bottom is set if the base value is
\* bottom, and after constraints that contradict each other is_bottom() is
\* true and operator[] returns bottom for every variable
C14_BottomPropagation ==
  /\ (t_call.name = "operator+=" /\ _impl.bot) => _is_bottom
  /\ Contradictory =>
       /\ au_is_bottom(This)
       /\ \A i \in 1..Len(ProgramVariables) :
            au_index(This, ProgramVariables[i]).v = IBot

\* terms-4.cc, block 3: x = y then x != y, on a value that was not bottom
\* and bound x and y to two terms
C14_Witness ==
  /\ Contradictory
  /\ LinCsts[t_call.k].kind = "ne"
  /\ ~t_before[1]._is_bottom
  /\ _var_map["x"] # _var_map["y"]
  /\ _impl.bot
  /\ _is_bottom

\* the last call was normalize(), or a call that ends with normalize()
Normalized ==
  t_call.name \in {"normalize", "operator+=", "operator[]"}

\* C15: a value that normalize() has just left has changed_terms empty, and
\* normalize() leaves every member of it as it is
C15_NormalizeIdempotent ==
  Normalized =>
    /\ changed_terms = {}
    /\ is_normalized(This)
    /\ normalize(This) = This

\* the normalize() of operator+= tightened the interval of a variable that
\* is not in the constraint, and a second normalize() changes nothing
C15_Witness ==
  /\ t_call.name = "operator+="
  /\ LinCsts[t_call.k].p = "z"
  /\ ~_is_bottom
  /\ au_index(This, "x").v # au_index(t_before[1], "x").v
  /\ changed_terms = {}
  /\ normalize(This) = This

\* every variable of _var_map is bound to a term of the table that has a
\* proxy variable in _term_map
BoundTermsHaveProxies ==
  \A v \in DOMAIN _var_map :
    _var_map[v] \in TermIds(_ttbl) /\ _var_map[v] \in DOMAIN _term_map

\* C16: after every public operation every (v, t) of _var_map has t a term of
\* the table with _term_map[t] defined, and operator-= does not remove the
\* _term_map entry of a term another variable is still bound to
C16_BoundTermsHaveProxies ==
  t_nops >= 1 => BoundTermsHaveProxies

\* C17: a call of assign, apply, set, operator-=, operator+=, normalize or
\* operator[] on a value whose _is_bottom is true leaves _impl as it was
C17_BottomKeepsImpl ==
  (/\ t_nops >= 1
   /\ t_before[1]._is_bottom
   /\ t_call.name \in {"assign", "apply", "apply_k", "apply_bitwise", "set",
                       "operator-=", "operator+=", "normalize", "operator[]"})
  => _impl = t_before[1]._impl

\* the value s binds x to a constant term: the constant, as <<n>>
ConstantOfX(s) ==
  IF "x" \in DOMAIN s._var_map /\ ~s._is_bottom
     /\ s._ttbl[s._var_map["x"] + 1].kind = "const"
  THEN <<s._ttbl[s._var_map["x"] + 1].n>>
  ELSE << >>

\* C18: the value a & b is below a and below b in operator<=, and it is
\* bottom when a and b bind x to two different constants
C18_MeetLowerBound ==
  t_call.name = "operator&" =>
    /\ au_leq(This, t_before[1]).v
    /\ au_leq(This, t_other[1]).v
    /\ (/\ ConstantOfX(t_before[1]) # << >>
        /\ ConstantOfX(t_other[1]) # << >>
        /\ ConstantOfX(t_before[1]) # ConstantOfX(t_other[1]))
       => au_is_bottom(This)

\* C19: for a and b that bind the same program variables, the value a | b is
\* above a and above b in operator<=
C19_JoinUpperBound ==
  (/\ t_call.name = "operator|"
   /\ DOMAIN t_before[1]._var_map = DOMAIN t_other[1]._var_map)
  => /\ au_leq(t_before[1], This).v
     /\ au_leq(t_other[1], This).v

\* C20: a <= a returns true for every value a
C20_LeqReflexive ==
  (t_call.name = "operator<=" /\ t_call.k = 0) => t_ret = <<TRUE>>

\* the last call rebinds x: assign, apply or set with target x
RebindsX ==
  t_call.name \in {"assign", "apply", "apply_k", "set"} /\ t_call.x = "x"

\* the last call but one was expand(x, w)
Expanded == t_prev.name = "expand" /\ t_prev.x = "x" /\ t_prev.y = "w"

\* w is bound as it was before the last call, and operator[](w) returns what
\* operator[](x) returned before the last call
CopyKept ==
  /\ "w" \in DOMAIN _var_map
  /\ _var_map["w"] = t_before[1]._var_map["w"]
  /\ au_index(This, "w").v = au_index(t_before[1], "x").v

\* the last call rebinds x after expand(x, w), on a value that was not
\* bottom
RebindsAfterExpand == Expanded /\ RebindsX /\ ~t_before[1]._is_bottom

TopFrameAfter == stack'[Len(stack')]

\* the ascending loop is at its test and the post-fixpoint is not reached
AscNotStable ==
  BodyDone("asc") /\ ~ILeq(NewPre(TopFrame.head), TopFrame.pre)

\* C22: within one visit of a cycle, ascending iteration i, counted from 1 at
\* the start of the visit, that has not reached a post-fixpoint combines pre
\* and new_pre by join when i <= widening_threshold and by widening when
\* i > widening_threshold, by threshold widening with the jump set exactly
\* when the jump set is in use (jump_set_size > 0); with widening_threshold = 0
\* join is never used.
C22_JoinThenWidening ==
  [][AscNotStable =>
       /\ Len(stack') = Len(stack)
       /\ TopFrameAfter.phase = "asc"
       /\ TopFrameAfter.iteration = TopFrame.iteration + 1
       /\ TopFrameAfter.pre =
            IF TopFrame.iteration <= _widening_threshold
              THEN IJoin(TopFrame.pre, NewPre(TopFrame.head))
            ELSE IF _use_widening_jump_set
              THEN IWidenThresholds(TopFrame.pre, NewPre(TopFrame.head), _jump_set)
            ELSE IWiden(TopFrame.pre, NewPre(TopFrame.head))]_vars

\* a visit started from a bounded pre-state that joined at iteration 1, widened
\* at iteration 2 without jump set, which made a bound of pre infinite, and is
\* about to go round a third time
C22_Witness ==
  /\ pc = "iterate"
  /\ Len(stack) >= 2
  /\ TopFrame.phase = "asc"
  /\ TopFrame.iteration = 3
  /\ TopFrame.idx = 0
  /\ _widening_threshold = 1
  /\ ~_use_widening_jump_set
  /\ init = Itv(Fin(0), Fin(0))
  /\ TopFrame.pre.lb = Fin(0)
  /\ TopFrame.pre.ub = PInf

\* the descending loop is at its test
DescTest == BodyDone("desc")

\* C23: in the descending phase of a cycle, the first refinement (j = 1)
\* replaces pre by the meet of pre and new_pre and every later refinement
\* (j >= 2) by the narrowing of pre with new_pre; the phase stops without
\* refining as soon as pre <= new_pre, and the refined pre is recorded as
\* pre(head).
C23_MeetThenNarrowing ==
  [][DescTest =>
       IF ILeq(TopFrame.pre, NewPre(TopFrame.head))
         THEN Len(stack') = Len(stack) - 1 /\ _pre' = _pre
       ELSE IF Len(stack') = Len(stack)
         THEN /\ TopFrameAfter.phase = "desc"
              /\ TopFrameAfter.iteration = TopFrame.iteration + 1
              /\ TopFrameAfter.pre =
                   IF TopFrame.iteration = 1
                     THEN IMeet(TopFrame.pre, NewPre(TopFrame.head))
                     ELSE INarrow(TopFrame.pre, NewPre(TopFrame.head))
              /\ get(_pre', TopFrame.head) = TopFrameAfter.pre
              /\ \A n \in DOMAIN _pre \ {TopFrame.head} :
                   n \in DOMAIN _pre' /\ _pre'[n] = _pre[n]
       ELSE Len(stack') = Len(stack) - 1 /\ _pre' = _pre]_vars

\* a descending loop that has refined twice, by meet and then by narrowing,
\* and holds a pre-state smaller than the one the ascending loop left
C23_Witness ==
  /\ pc = "iterate"
  /\ Len(stack) >= 2
  /\ TopFrame.phase = "desc"
  /\ TopFrame.iteration = 3
  /\ TopFrame.idx = 0
  /\ get(_pre, TopFrame.head) = TopFrame.pre
  /\ ~IIsBot(TopFrame.pre)
  /\ ~IIsTop(TopFrame.pre)

(***************************************************************************)
(* Properties of the powerset join and of the powerset forget.             *)
(***************************************************************************)
\* the last call was a join of two values that are neither top nor bottom
JoinedProper ==
  /\ op \in {"operator|=", "operator|"}
  /\ ~is_top(m_before) /\ ~is_bottom(m_before)
  /\ ~is_top(other) /\ ~is_bottom(other)

\* vec followed by the disjuncts of o from index j on that are not <= a
\* disjunct already present
RECURSIVE WithUndominated(_, _, _)
WithUndominated(vec, o, j) ==
  IF j > Len(o) THEN vec
  ELSE IF \E i \in 1..Len(vec) : DLeq(o[j], vec[i])
    THEN WithUndominated(vec, o, j + 1)
    ELSE WithUndominated(Append(vec, o[j]), o, j + 1)

\* the base-domain join of all the disjuncts of vec
RECURSIVE JoinOfAll(_)
JoinOfAll(vec) ==
  IF Len(vec) = 1 THEN vec[1]
  ELSE DJoin(JoinOfAll(SubSeq(vec, 1, Len(vec) - 1)), vec[Len(vec)])

\* what the claim says the join of m and o is
JoinAsClaimed(m, o) ==
  IF Len(WithUndominated(m, o, 1)) > max_disjuncts
    THEN <<JoinOfAll(WithUndominated(m, o, 1))>>
    ELSE WithUndominated(m, o, 1)

\* C24: the powerset join of two values that are neither top nor bottom is the
\* left disjuncts followed by each right disjunct that is not <= a disjunct
\* already present; if that count exceeds max_disjuncts the result is the
\* single disjunct equal to the base-domain join of all of them; and the
\* in-place join and the by-value join give the same sequence.
C24_JoinPrunesThenSmashes ==
  JoinedProper =>
    /\ m_disjuncts = JoinAsClaimed(m_before, other)
    /\ OpJoinAssign(m_before, other) = OpJoin(m_before, other)

\* x = 1 joined in place with [x = 0, x = 2] under a budget of two: three
\* disjuncts, smashed to x in [0, 2]
C24_Witness ==
  /\ op = "operator|="
  /\ max_disjuncts = 2
  /\ m_before = <<XIs(1)>>
  /\ other = <<XIs(0), XIs(2)>>
  /\ m_disjuncts = <<Env(Itv(Fin(0), Fin(2)), ITop)>>

\* the last call was a forget on a value of two or more disjuncts that reset
\* the vector inside its loop: the vector is shorter than it was
ForgetReset ==
  /\ op = "operator-="
  /\ Len(m_before) >= 2
  /\ Len(m_disjuncts) < Len(m_before)

\* C30: powerset forget only touches disjuncts that exist: on a value with two
\* or more disjuncts, when forgetting makes some disjunct top and the vector
\* is reset to [top] inside the loop, no later step of the loop uses an index
\* at or beyond the length of the vector, and the final value is [top].
C30_ForgetInRange ==
  ForgetReset => (oob = "none" /\ m_disjuncts = <<DTop>>)

(***************************************************************************)
(* Properties of apply, of widening, of normalize, of forget and of        *)
(* assign.                                                                 *)
(***************************************************************************)
\* the last call was apply(+, x, y, z) or apply(+, x, y, k) on a value that
\* was not bottom
Applied == t_call.name \in {"apply", "apply_k"} /\ ~t_before[1]._is_bottom

\* the terms of the two operands of that call in the value before it, NoTerm
\* for a variable that was not bound and for a constant that had no term
FirstOperand ==
  IF t_call.y \in DOMAIN t_before[1]._var_map
    THEN t_before[1]._var_map[t_call.y] ELSE NoTerm

SecondOperand ==
  IF t_call.name = "apply_k" THEN find_const(t_before[1]._ttbl, t_call.k)
  ELSE IF t_call.z \in DOMAIN t_before[1]._var_map
    THEN t_before[1]._var_map[t_call.z] ELSE NoTerm

\* the terms of tbl that are the sum of the two operands
SumsIn(tbl) ==
  { t \in TermIds(tbl) : tbl[t + 1] = AppTerm("+", FirstOperand, SecondOperand) }

\* the term the call asks for was in the table before the call
AppExisted ==
  FirstOperand # NoTerm /\ SecondOperand # NoTerm /\ SumsIn(t_before[1]._ttbl) # {}

\* the number of applications in tbl
AppCount(tbl) == Cardinality({ t \in TermIds(tbl) : tbl[t + 1].kind = "app" })

\* the value the base domain holds for term t
ValueOfTerm(t) ==
  IF t \in DOMAIN _term_map THEN BaseGet(_impl, _term_map[t]) ELSE BaseGet(_impl, NoProxy)

\* C25: hash-consed apply.  When apply(op, x, y, z) or apply(op, x, y, k) finds
\* the term App(op, term(y), term(z or k)) in the term table, the call leaves
\* the base value, the term table and the term map unchanged and only rebinds
\* x to the existing term; when the term is new, exactly one application is
\* added to the table, x is bound to it, and the base domain holds for its
\* proxy the result of one apply over the proxies of the operands.
C25_HashConsedApply ==
  Applied =>
    IF AppExisted
      THEN /\ _impl = t_before[1]._impl
           /\ _ttbl = t_before[1]._ttbl
           /\ _term_map = t_before[1]._term_map
           /\ _alloc = t_before[1]._alloc
           /\ DOMAIN _var_map = DOMAIN t_before[1]._var_map \cup {t_call.x}
           /\ _var_map[t_call.x] \in SumsIn(_ttbl)
           /\ \A v \in DOMAIN _var_map \ {t_call.x} :
                _var_map[v] = t_before[1]._var_map[v]
      ELSE /\ AppCount(_ttbl) = AppCount(t_before[1]._ttbl) + 1
           /\ SubSeq(_ttbl, 1, Len(t_before[1]._ttbl)) = t_before[1]._ttbl
           /\ _ttbl[Len(_ttbl)].kind = "app"
           /\ _var_map[t_call.x] = Len(_ttbl) - 1
           /\ {Len(_ttbl) - 1, _ttbl[Len(_ttbl)].l, _ttbl[Len(_ttbl)].r}
                \subseteq DOMAIN _term_map
           /\ ValueOfTerm(Len(_ttbl) - 1) =
                IArith("+", ValueOfTerm(_ttbl[Len(_ttbl)].l),
                            ValueOfTerm(_ttbl[Len(_ttbl)].r))

\* y := x + 2 made on a value where x + 2 had a term already, with a proxy
\* and a value in the base domain: nothing but the binding of y may change
C25_Witness ==
  /\ Applied /\ AppExisted
  /\ t_call.name = "apply_k"
  /\ ~_is_bottom
  /\ _var_map[t_call.x] \in DOMAIN _term_map
  /\ ~IIsTop(ValueOfTerm(_var_map[t_call.x]))
  /\ _ttbl = t_before[1]._ttbl

\* the last call was a widening, or a join, with t_other[1] on the right
Widened == t_call.name = "operator||"

Joined == t_call.name = "operator|"

\* the left operand as the widening leaves it, and as the join leaves it
LeftAfterWidening == au_widen(t_before[1], t_other[1]).st

LeftAfterJoin == au_join(t_before[1], t_other[1]).st

\* s and r have the same base value, bindings and pending terms
SameMembers(s, r) ==
  /\ r._impl = s._impl
  /\ r._var_map = s._var_map
  /\ r.changed_terms = s.changed_terms
  /\ r._is_bottom = s._is_bottom

\* r has the proxies of s, and maybe more
ProxiesKept(s, r) ==
  \A t \in DOMAIN s._term_map : t \in DOMAIN r._term_map /\ r._term_map[t] = s._term_map[t]

\* the join normalizes both operands first
JoinNormalizes ==
  Joined =>
    /\ is_normalized(LeftAfterJoin)
    /\ LeftAfterJoin._impl.bot => LeftAfterJoin._is_bottom
    /\ This = au_join(normalize(t_before[1]), normalize(t_other[1])).v

UpperBoundKept ==
  \/ IIsBot(au_index(This, "z").v)
  \/ BLe(au_index(This, "z").v.ub, Fin(5))

\* the base value of every term that had a proxy before the last call is
\* within the one it had
BaseTightened ==
  \A t \in DOMAIN t_before[1]._term_map :
    /\ t \in DOMAIN _term_map
    /\ ILeq(BaseGet(_impl, _term_map[t]),
            BaseGet(t_before[1]._impl, t_before[1]._term_map[t]))

\* C27: normalize only tightens: after operator+=, which adds the constraint
\* to the base value and normalizes, the base value is <= the one before, so
\* no bound is lost; and after adding z <= 5, operator[](z) is bottom or has
\* an upper bound <= 5, also when the term of z has parents at several depths.
C27_NormalizeTightens ==
  /\ t_call.name = "operator+=" => BaseTightened
  /\ AddedUpperBound => UpperBoundKept

\* the last call was 'operator-=(v)' on a value that was not bottom
Forgot == t_call.name = "operator-=" /\ ~t_before[1]._is_bottom

\* C28: forgetting a variable affects that variable only: on a value that is
\* not bottom, for every variable w other than the forgotten v, operator[](w)
\* returns after 'state -= v' what it returned before, also when w is bound
\* to the same term as v.
C28_ForgetOnlyThat ==
  Forgot =>
    \A w \in {"x", "y", "w", "z"} \ {t_call.x} :
      au_index(This, w).v = au_index(t_before[1], w).v

\* the last call assigned the constant expression n = Exprs[k].cst to a
\* variable, on a value that was not bottom, by its flag or by its base value
AssignedConstant ==
  /\ t_call.name = "assign"
  /\ Exprs[t_call.k].terms = << >>
  /\ ~t_before[1]._is_bottom
  /\ ~t_before[1]._impl.bot

\* C29: assigning a constant is exact after any history: on every value that
\* is not bottom, also one where the term of the constant was created earlier
\* and the variable bound to it was forgotten, assign(v, n) followed by
\* operator[](v) returns the interval [n, n].
C29_AssignConstantExact ==
  AssignedConstant =>
    au_index(This, t_call.x).v = Itv(Fin(Exprs[t_call.k].cst), Fin(Exprs[t_call.k].cst))

====
